---------------------------- MODULE Spec2Model ----------------------------
(***************************************************************************)
(* Environmental control loop of the lunar growth dome                     *)
(* (src/src/environmental_control.py): the PID controller, the alert       *)
(* evaluator, the actuator mapping, update_control, the plant model of     *)
(* simulate_step and run_simulation.                                       *)
(*                                                                         *)
(* Numbers.  The program computes in binary floating point; the model      *)
(* computes in decimal fixed point and rounds every quotient to the        *)
(* nearest unit (RoundDiv).  Units:                                        *)
(*   - sensor readings, setpoints, tolerances, actuator values, PID        *)
(*     errors, integrals and outputs, energy: 1/Scale (one thousandth);    *)
(*   - the O2 reading and the O2 setpoint: 1/O2Scale (one ten-thousandth   *)
(*     of a percent), so that the photosynthesis increment 0.0001*dt is    *)
(*     the integer dt;                                                     *)
(*   - PID gains: 1/GainScale (one hundredth);                             *)
(*   - dt and the timestamp: whole seconds;                                *)
(*   - duration_hours: 1/HourScale of an hour.                             *)
(***************************************************************************)
EXTENDS Integers, Sequences, FiniteSets, TLC

VARIABLES
    state,                \* self.state: DomeState
    temp_controller,      \* self.temp_controller: PIDController
    humidity_controller,  \* self.humidity_controller: PIDController
    co2_controller,       \* self.co2_controller: PIDController
    history,              \* self.history: list of asdict(self.state) snapshots
    run,                  \* position of run_simulation's for loop
    call,                 \* the last call made on the controller and what it returned
    steps_done,           \* number of simulate_step executions completed
    updates_done,         \* number of update_control executions completed
    pid,                  \* a PIDController used on its own
    pid_call,             \* the last call made on pid and what it returned
    instances             \* two controller objects and the objects they refer to

vars == <<state, temp_controller, humidity_controller, co2_controller,
          history, run, call, steps_done, updates_done, pid, pid_call,
          instances>>

domeVars == <<state, temp_controller, humidity_controller, co2_controller,
              history, run, call, steps_done, updates_done>>

pidVars == <<pid, pid_call>>

\* what the calls on the single controller leave alone
restVars == <<pid, pid_call, instances>>

---------------------------------------------------------------------------
(* Fixed-point units *)

Scale == 1000

O2Scale == 10000

GainScale == 100

HourScale == 100

Abs(x) == IF x < 0 THEN -x ELSE x

Min(a, b) == IF a < b THEN a ELSE b

Max(a, b) == IF a > b THEN a ELSE b

\* a / b rounded to the nearest integer (halves away from zero), b # 0
RoundDiv(a, b) ==
    LET n == IF b < 0 THEN -a ELSE a
        d == Abs(b)
        m == Abs(n)
        q == (m \div d) + (IF 2 * (m % d) >= d THEN 1 ELSE 0)
    IN  IF n >= 0 THEN q ELSE -q

\* int(a / b): the quotient truncated toward zero, b # 0
TruncDiv(a, b) ==
    LET n == IF b < 0 THEN -a ELSE a
        d == Abs(b)
    IN  IF n >= 0 THEN n \div d ELSE -((-n) \div d)

\* np.clip(x, lo, hi) == minimum(maximum(x, lo), hi)
Clip(x, lo, hi) == Min(Max(x, lo), hi)

---------------------------------------------------------------------------
(* PIDController *)

\* the anti-windup band of the integral accumulator: np.clip(.., -100, 100)
IntegralLimit == 100 * Scale

\* PIDController.__init__
PIDController(kp, ki, kd, output_min, output_max) ==
    [kp |-> kp, ki |-> ki, kd |-> kd,
     output_min |-> output_min, output_max |-> output_max,
     integral |-> 0, last_error |-> 0]

\* PIDController.update with the final clip left out
PIDController_update_noclip(p, setpoint, measured, dt) ==
    LET error  == setpoint - measured
        p_term == RoundDiv(p.kp * error, GainScale)
    IN  IF dt <= 0
        THEN [pid |-> p,
              output |-> p_term + RoundDiv(p.ki * p.integral, GainScale)]
        ELSE LET integral == Clip(p.integral + error * dt,
                                  -IntegralLimit, IntegralLimit)
                 i_term == RoundDiv(p.ki * integral, GainScale)
                 d_term == RoundDiv(p.kd * (error - p.last_error), GainScale * dt)
             IN  [pid |-> [p EXCEPT !.integral = integral, !.last_error = error],
                  output |-> p_term + i_term + d_term]

\* PIDController.update with the anti-windup clip left out
PIDController_update_nowindup(p, setpoint, measured, dt) ==
    LET error  == setpoint - measured
        p_term == RoundDiv(p.kp * error, GainScale)
    IN  IF dt <= 0
        THEN [pid |-> p,
              output |-> Clip(p_term + RoundDiv(p.ki * p.integral, GainScale),
                              p.output_min, p.output_max)]
        ELSE LET integral == p.integral + error * dt
                 i_term == RoundDiv(p.ki * integral, GainScale)
                 d_term == RoundDiv(p.kd * (error - p.last_error), GainScale * dt)
             IN  [pid |-> [p EXCEPT !.integral = integral, !.last_error = error],
                  output |-> Clip(p_term + i_term + d_term,
                                  p.output_min, p.output_max)]

\* PIDController.update recording the error also when dt <= 0
PIDController_update_lasterr(p, setpoint, measured, dt) ==
    LET error  == setpoint - measured
        p_term == RoundDiv(p.kp * error, GainScale)
    IN  IF dt <= 0
        THEN [pid |-> [p EXCEPT !.last_error = error],
              output |-> Clip(p_term + RoundDiv(p.ki * p.integral, GainScale),
                              p.output_min, p.output_max)]
        ELSE LET integral == Clip(p.integral + error * dt,
                                  -IntegralLimit, IntegralLimit)
                 i_term == RoundDiv(p.ki * integral, GainScale)
                 d_term == RoundDiv(p.kd * (error - p.last_error), GainScale * dt)
             IN  [pid |-> [p EXCEPT !.integral = integral, !.last_error = error],
                  output |-> Clip(p_term + i_term + d_term,
                                  p.output_min, p.output_max)]

\* PIDController.update taking the derivative of the measurement, not the error
PIDController_update_dmeas(p, setpoint, measured, dt) ==
    LET error  == setpoint - measured
        p_term == RoundDiv(p.kp * error, GainScale)
    IN  IF dt <= 0
        THEN [pid |-> p,
              output |-> Clip(p_term + RoundDiv(p.ki * p.integral, GainScale),
                              p.output_min, p.output_max)]
        ELSE LET integral == Clip(p.integral + error * dt,
                                  -IntegralLimit, IntegralLimit)
                 i_term == RoundDiv(p.ki * integral, GainScale)
                 d_term == RoundDiv(p.kd * (p.last_error - error), GainScale * dt)
             IN  [pid |-> [p EXCEPT !.integral = integral, !.last_error = error],
                  output |-> Clip(p_term + i_term + d_term,
                                  p.output_min, p.output_max)]

\* PIDController.update(setpoint, measured, dt): the controller after the
\* call and the value returned
PIDController_update(p, setpoint, measured, dt) ==
    LET error  == setpoint - measured
        p_term == RoundDiv(p.kp * error, GainScale)
    IN  IF dt <= 0
        THEN \* skip integral accumulation and derivative calculation
             LET i_term == RoundDiv(p.ki * p.integral, GainScale)
                 d_term == 0
             IN  [pid |-> p,
                  output |-> Clip(p_term + i_term + d_term,
                                  p.output_min, p.output_max)]
        ELSE LET integral == Clip(p.integral + error * dt,
                                  -IntegralLimit, IntegralLimit)
                 i_term == RoundDiv(p.ki * integral, GainScale)
                 d_term == RoundDiv(p.kd * (error - p.last_error), GainScale * dt)
             IN  [pid |-> [p EXCEPT !.integral = integral, !.last_error = error],
                  output |-> Clip(p_term + i_term + d_term,
                                  p.output_min, p.output_max)]

\* PIDController.reset leaving last_error as it was
PIDController_reset_keep_error(p) == [p EXCEPT !.integral = 0]

\* PIDController.reset
PIDController_reset(p) == [p EXCEPT !.integral = 0, !.last_error = 0]

---------------------------------------------------------------------------
(* ControlMode, AlertLevel and the dataclasses *)

ControlMode == {"STANDBY", "CONDITIONING", "GROWING", "EMERGENCY", "MAINTENANCE"}

AlertLevel == {"NORMAL", "WARNING", "CRITICAL", "EMERGENCY"}

\* EnvironmentalSetpoints()
EnvironmentalSetpoints ==
    [temperature_c |-> 22 * Scale, temperature_tolerance |-> 2 * Scale,
     humidity_percent |-> 65 * Scale, humidity_tolerance |-> 10 * Scale,
     co2_ppm |-> 800 * Scale, co2_tolerance |-> 200 * Scale,
     o2_percent |-> 209 * (O2Scale \div 10), o2_tolerance |-> 1 * O2Scale,
     light_intensity_umol |-> 300 * Scale,
     photoperiod_hours |-> 16 * Scale]

\* PhysicalConstants.STANDARD_PRESSURE_PA
STANDARD_PRESSURE_PA == 101325

\* DomeSensors()
DomeSensors ==
    [temperature_c |-> 20 * Scale, humidity_percent |-> 60 * Scale,
     co2_ppm |-> 400 * Scale, o2_percent |-> 209 * (O2Scale \div 10),
     light_intensity_umol |-> 0, pressure_pa |-> STANDARD_PRESSURE_PA,
     soil_moisture_percent |-> 50 * Scale, timestamp |-> 0]

\* ControlActions()
ControlActions ==
    [heater_power_percent |-> 0, cooler_active |-> FALSE,
     misting_rate_ml_min |-> 0, vent_position_percent |-> 0,
     co2_injection_rate_ml_min |-> 0, led_power_percent |-> 0,
     circulation_fan_rpm |-> 0]

\* DomeState()
DomeState ==
    [mode |-> "STANDBY", sensors |-> DomeSensors,
     setpoints |-> EnvironmentalSetpoints, actions |-> ControlActions,
     alerts |-> << >>, energy_consumption_w |-> 0]

\* AIEnvironmentalController.__init__: the controller object
AIEnvironmentalController ==
    [state |-> DomeState,
     temp_controller |-> PIDController(200, 10, 50, -100 * Scale, 100 * Scale),
     humidity_controller |-> PIDController(150, 5, 30, -100 * Scale, 100 * Scale),
     co2_controller |-> PIDController(50, 2, 10, 0, 100 * Scale),
     history |-> << >>]

---------------------------------------------------------------------------
(* Alert evaluator *)

\* an alert tuple (AlertLevel, message); the message is kept as its wording
Alert(level, message) == [level |-> level, message |-> message]

\* check_alerts raising the temperature Warning already at 2 x tolerance
check_alerts_nonstrict(sensors, setpoints) ==
    LET temp_error == Abs(sensors.temperature_c - setpoints.temperature_c)
        temp_alerts ==
            IF temp_error > setpoints.temperature_tolerance * 3
            THEN << Alert("CRITICAL", "temperature critically out of range") >>
            ELSE IF temp_error >= setpoints.temperature_tolerance * 2
            THEN << Alert("WARNING", "temperature outside tolerance") >>
            ELSE << >>
        humidity_error == Abs(sensors.humidity_percent - setpoints.humidity_percent)
        humidity_alerts ==
            IF humidity_error > setpoints.humidity_tolerance * 2
            THEN << Alert("WARNING", "humidity outside tolerance") >>
            ELSE << >>
        co2_alerts ==
            IF sensors.co2_ppm > 5000 * Scale
            THEN << Alert("CRITICAL", "co2 dangerously high") >>
            ELSE IF sensors.co2_ppm < 200 * Scale
            THEN << Alert("WARNING", "co2 too low for plant growth") >>
            ELSE << >>
        o2_alerts ==
            IF sensors.o2_percent < 18 * O2Scale
            THEN << Alert("EMERGENCY", "oxygen critically low") >>
            ELSE IF sensors.o2_percent > 23 * O2Scale
            THEN << Alert("CRITICAL", "oxygen fire hazard") >>
            ELSE << >>
    IN  temp_alerts \o humidity_alerts \o co2_alerts \o o2_alerts

\* check_alerts raising the humidity Warning at 1 x tolerance
check_alerts_tight(sensors, setpoints) ==
    LET temp_error == Abs(sensors.temperature_c - setpoints.temperature_c)
        temp_alerts ==
            IF temp_error > setpoints.temperature_tolerance * 3
            THEN << Alert("CRITICAL", "temperature critically out of range") >>
            ELSE IF temp_error > setpoints.temperature_tolerance * 2
            THEN << Alert("WARNING", "temperature outside tolerance") >>
            ELSE << >>
        humidity_error == Abs(sensors.humidity_percent - setpoints.humidity_percent)
        humidity_alerts ==
            IF humidity_error >= setpoints.humidity_tolerance * 1
            THEN << Alert("WARNING", "humidity outside tolerance") >>
            ELSE << >>
        co2_alerts ==
            IF sensors.co2_ppm > 5000 * Scale
            THEN << Alert("CRITICAL", "co2 dangerously high") >>
            ELSE IF sensors.co2_ppm < 200 * Scale
            THEN << Alert("WARNING", "co2 too low for plant growth") >>
            ELSE << >>
        o2_alerts ==
            IF sensors.o2_percent < 18 * O2Scale
            THEN << Alert("EMERGENCY", "oxygen critically low") >>
            ELSE IF sensors.o2_percent > 23 * O2Scale
            THEN << Alert("CRITICAL", "oxygen fire hazard") >>
            ELSE << >>
    IN  temp_alerts \o humidity_alerts \o co2_alerts \o o2_alerts

\* AIEnvironmentalController.check_alerts
check_alerts(sensors, setpoints) ==
    LET temp_error == Abs(sensors.temperature_c - setpoints.temperature_c)
        temp_alerts ==
            IF temp_error > setpoints.temperature_tolerance * 3
            THEN << Alert("CRITICAL", "temperature critically out of range") >>
            ELSE IF temp_error > setpoints.temperature_tolerance * 2
            THEN << Alert("WARNING", "temperature outside tolerance") >>
            ELSE << >>
        humidity_error == Abs(sensors.humidity_percent - setpoints.humidity_percent)
        humidity_alerts ==
            IF humidity_error > setpoints.humidity_tolerance * 2
            THEN << Alert("WARNING", "humidity outside tolerance") >>
            ELSE << >>
        co2_alerts ==
            IF sensors.co2_ppm > 5000 * Scale
            THEN << Alert("CRITICAL", "co2 dangerously high") >>
            ELSE IF sensors.co2_ppm < 200 * Scale
            THEN << Alert("WARNING", "co2 too low for plant growth") >>
            ELSE << >>
        o2_alerts ==
            IF sensors.o2_percent < 18 * O2Scale
            THEN << Alert("EMERGENCY", "oxygen critically low") >>
            ELSE IF sensors.o2_percent > 23 * O2Scale
            THEN << Alert("CRITICAL", "oxygen fire hazard") >>
            ELSE << >>
    IN  temp_alerts \o humidity_alerts \o co2_alerts \o o2_alerts

\* any(alert[0] == AlertLevel.EMERGENCY for alert in alerts)
HasEmergency(alerts) == \E i \in 1..Len(alerts) : alerts[i].level = "EMERGENCY"

---------------------------------------------------------------------------
(* Actuator mapping.  The three PID controllers are separate objects; each  *)
(* calculate_* operator takes the controller it updates and returns it      *)
(* together with the actuator values.                                       *)

\* lines 311-316 with the heater never switched on
temperature_actuation_off(r) ==
    [pid |-> r.pid,
     heater |-> 0,
     cooler |-> IF r.output > 0 THEN FALSE ELSE r.output < 0]

\* lines 311-316: heater and cooler from the PID output r
temperature_actuation(r) ==
    [pid |-> r.pid,
     heater |-> IF r.output > 0 THEN r.output ELSE 0,
     cooler |-> IF r.output > 0 THEN FALSE ELSE r.output < 0]

\* AIEnvironmentalController.calculate_temperature_control
calculate_temperature_control(controller, current, setpoint, dt) ==
    temperature_actuation(PIDController_update(controller, setpoint, current, dt))

\* lines 334-343 with a dead band: the vents stay shut for outputs above -1
humidity_actuation_deadband(r) ==
    [pid |-> r.pid,
     misting |-> IF r.output > 0 THEN RoundDiv(r.output * 5, 10) ELSE 0,
     venting |-> IF r.output > -1 * Scale THEN 0
                 ELSE Min(Abs(r.output), 50 * Scale)]

\* lines 334-343 with the vents also opened while misting
humidity_actuation_both(r) ==
    [pid |-> r.pid,
     misting |-> IF r.output > 0 THEN RoundDiv(r.output * 5, 10) ELSE 0,
     venting |-> Min(Abs(r.output), 50 * Scale)]

\* lines 334-343: misting and vent from the PID output r
humidity_actuation(r) ==
    [pid |-> r.pid,
     misting |-> IF r.output > 0 THEN RoundDiv(r.output * 5, 10) ELSE 0,
     venting |-> IF r.output > 0 THEN 0 ELSE Min(Abs(r.output), 50 * Scale)]

\* AIEnvironmentalController.calculate_humidity_control
calculate_humidity_control(controller, current, setpoint, dt) ==
    humidity_actuation(PIDController_update(controller, setpoint, current, dt))

\* line 360: the injection rate from the PID output r
co2_actuation(r) ==
    [pid |-> r.pid,
     co2_injection |-> Max(0, RoundDiv(r.output * 1, 10))]

\* AIEnvironmentalController.calculate_co2_control
calculate_co2_control(controller, current, setpoint, dt) ==
    co2_actuation(PIDController_update(controller, setpoint, current, dt))

\* calculate_lighting_control without the sunset ramp
calculate_lighting_control_noramp(timestamp, photoperiod) ==
    LET secs_in_cycle == timestamp % (24 * 3600)
    IN  IF secs_in_cycle * Scale < photoperiod * 3600
        THEN IF secs_in_cycle < 3600
             THEN RoundDiv(secs_in_cycle * Scale * 100, 3600)
             ELSE 100 * Scale
        ELSE 0

\* calculate_lighting_control(timestamp / 3600, photoperiod): the hour of
\* day is kept in seconds, hour_in_cycle = (timestamp % 86400) / 3600
calculate_lighting_control(timestamp, photoperiod) ==
    LET secs_in_cycle == timestamp % (24 * 3600)
    IN  IF secs_in_cycle * Scale < photoperiod * 3600
        THEN IF secs_in_cycle < 3600
             THEN RoundDiv(secs_in_cycle * Scale * 100, 3600)
             ELSE IF secs_in_cycle * Scale > (photoperiod - 1 * Scale) * 3600
             THEN RoundDiv((photoperiod * 3600 - secs_in_cycle * Scale) * 100, 3600)
             ELSE 100 * Scale
        ELSE 0

\* line 428 without the 500 RPM base speed
fan_speed_of_nobase(temperature_c, setpoint) ==
    Min(Abs(temperature_c - setpoint) * 100, 1500 * Scale)

\* line 428: fan_speed = 500 + min(temp_error * 100, 1500)
fan_speed_of(temperature_c, setpoint) ==
    500 * Scale + Min(Abs(temperature_c - setpoint) * 100, 1500 * Scale)

\* lines 441-446: the energy draw
energy_of(heater, cooler, led_power, fan_speed) ==
    heater * 2 + (IF cooler THEN 60 * Scale ELSE 0) + led_power * 1
        + RoundDiv(fan_speed * 2, 100)

\* _emergency_response with the vents left shut
_emergency_response_shut ==
    [heater_power_percent |-> 0, cooler_active |-> FALSE,
     misting_rate_ml_min |-> 0, vent_position_percent |-> 0,
     co2_injection_rate_ml_min |-> 0, led_power_percent |-> 0,
     circulation_fan_rpm |-> 2000 * Scale]

\* _emergency_response with the grow lights left on
_emergency_response_lit ==
    [heater_power_percent |-> 0, cooler_active |-> FALSE,
     misting_rate_ml_min |-> 0, vent_position_percent |-> 100 * Scale,
     co2_injection_rate_ml_min |-> 0, led_power_percent |-> 100 * Scale,
     circulation_fan_rpm |-> 2000 * Scale]

\* AIEnvironmentalController._emergency_response
_emergency_response ==
    [heater_power_percent |-> 0, cooler_active |-> FALSE,
     misting_rate_ml_min |-> 0, vent_position_percent |-> 100 * Scale,
     co2_injection_rate_ml_min |-> 0, led_power_percent |-> 0,
     circulation_fan_rpm |-> 2000 * Scale]

\* lines 430-438: actions = ControlActions(...)
build_actions(t, h, c, led_power, fan_speed) ==
    [heater_power_percent |-> t.heater,
     cooler_active |-> t.cooler,
     misting_rate_ml_min |-> h.misting,
     vent_position_percent |-> h.venting,
     co2_injection_rate_ml_min |-> c.co2_injection,
     led_power_percent |-> led_power,
     circulation_fan_rpm |-> fan_speed]

\* lines 440-451: the energy is computed, actions and energy are stored in
\* the state and the actions are returned; t, h and c carry the PID
\* controllers as their update calls left them
store_actions(self0, t, h, c, led_power, fan_speed) ==
    [self |-> [self0 EXCEPT
                  !.temp_controller = t.pid,
                  !.humidity_controller = h.pid,
                  !.co2_controller = c.pid,
                  !.state.actions = build_actions(t, h, c, led_power, fan_speed),
                  !.state.energy_consumption_w =
                      energy_of(t.heater, t.cooler, led_power, fan_speed)],
     ret |-> build_actions(t, h, c, led_power, fan_speed)]

\* lines 409-451: the normal branch of update_control
update_control_normal(self0, dt) ==
    store_actions(
        self0,
        calculate_temperature_control(self0.temp_controller,
            self0.state.sensors.temperature_c,
            self0.state.setpoints.temperature_c, dt),
        calculate_humidity_control(self0.humidity_controller,
            self0.state.sensors.humidity_percent,
            self0.state.setpoints.humidity_percent, dt),
        calculate_co2_control(self0.co2_controller,
            self0.state.sensors.co2_ppm, self0.state.setpoints.co2_ppm, dt),
        calculate_lighting_control(self0.state.sensors.timestamp,
            self0.state.setpoints.photoperiod_hours),
        fan_speed_of(self0.state.sensors.temperature_c,
            self0.state.setpoints.temperature_c))

\* lines 402-407 with a recovery: a step without an Emergency alert leaves
\* the Emergency mode
emergency_or_normal_recover(self, alerts, dt) ==
    IF HasEmergency(alerts)
    THEN [self |-> [self EXCEPT !.state.alerts = alerts,
                                !.state.mode = "EMERGENCY"],
          ret |-> _emergency_response]
    ELSE update_control_normal(
             [self EXCEPT !.state.alerts = alerts,
                          !.state.mode = IF @ = "EMERGENCY" THEN "STANDBY" ELSE @],
             dt)

\* lines 402-407 with the early return moved behind the control
\* computation: the three PID controllers are updated in an Emergency step
\* too, and the safe-state command is returned in place of theirs
emergency_or_normal_late(self, alerts, dt) ==
    IF HasEmergency(alerts)
    THEN [self |-> [self EXCEPT
                      !.state.alerts = alerts,
                      !.state.mode = "EMERGENCY",
                      !.temp_controller =
                          update_control_normal(self, dt).self.temp_controller,
                      !.humidity_controller =
                          update_control_normal(self, dt).self.humidity_controller,
                      !.co2_controller =
                          update_control_normal(self, dt).self.co2_controller],
          ret |-> _emergency_response]
    ELSE update_control_normal([self EXCEPT !.state.alerts = alerts], dt)

\* lines 402-407 with the safe-state command stored as the actions of the
\* state, the stored energy left as it was
emergency_or_normal_stored(self, alerts, dt) ==
    IF HasEmergency(alerts)
    THEN [self |-> [self EXCEPT !.state.alerts = alerts,
                                !.state.mode = "EMERGENCY",
                                !.state.actions = _emergency_response],
          ret |-> _emergency_response]
    ELSE update_control_normal([self EXCEPT !.state.alerts = alerts], dt)

\* lines 402-407 with the mode read: in Standby mode no control is
\* computed and an idle command is returned
emergency_or_normal_standby(self, alerts, dt) ==
    IF HasEmergency(alerts)
    THEN [self |-> [self EXCEPT !.state.alerts = alerts,
                                !.state.mode = "EMERGENCY"],
          ret |-> _emergency_response]
    ELSE IF self.state.mode = "STANDBY"
    THEN [self |-> [self EXCEPT !.state.alerts = alerts],
          ret |-> ControlActions]
    ELSE update_control_normal([self EXCEPT !.state.alerts = alerts], dt)

\* lines 402-407: the alerts are stored; with an Emergency alert the mode
\* becomes EMERGENCY and the safe-state command is returned at once
emergency_or_normal(self, alerts, dt) ==
    IF HasEmergency(alerts)
    THEN [self |-> [self EXCEPT !.state.alerts = alerts,
                                !.state.mode = "EMERGENCY"],
          ret |-> _emergency_response]
    ELSE update_control_normal([self EXCEPT !.state.alerts = alerts], dt)

\* AIEnvironmentalController.update_control(dt): the controller after the
\* call and the ControlActions returned
update_control(self, dt) ==
    emergency_or_normal(
        self, check_alerts(self.state.sensors, self.state.setpoints), dt)

---------------------------------------------------------------------------
(* Plant model and loop driver *)

\* the physical update with the humidity and the CO2 computed but not
\* clamped
plant_update_unclamped(sensors, actions, dt) ==
    LET temp_change ==
            actions.heater_power_percent * 10
            - (IF actions.cooler_active THEN 2 * Scale * 10 ELSE 0)
            - (sensors.temperature_c - (-20 * Scale))
        humidity_change ==
            actions.misting_rate_ml_min * 500
            - actions.vent_position_percent * 10
            - sensors.humidity_percent * 5
        co2_change ==
            actions.co2_injection_rate_ml_min * 10 * 2
            - 5 * Scale * 2
            - actions.vent_position_percent
    IN  [sensors EXCEPT
            !.temperature_c = @ + RoundDiv(temp_change * dt, 10000),
            !.humidity_percent = @ + RoundDiv(humidity_change * dt, 10000),
            !.co2_ppm = @ + RoundDiv(co2_change * dt, 2 * 60),
            !.o2_percent =
                IF actions.led_power_percent > 50 * Scale
                THEN @ + RoundDiv(dt * O2Scale, 10000)
                ELSE @,
            !.timestamp = @ + dt]

\* the physical update with no CO2 lost through the vents
plant_update_sealed(sensors, actions, dt) ==
    LET temp_change ==
            actions.heater_power_percent * 10
            - (IF actions.cooler_active THEN 2 * Scale * 10 ELSE 0)
            - (sensors.temperature_c - (-20 * Scale))
        humidity_change ==
            actions.misting_rate_ml_min * 500
            - actions.vent_position_percent * 10
            - sensors.humidity_percent * 5
        co2_change ==
            actions.co2_injection_rate_ml_min * 10 * 2
            - 5 * Scale * 2
    IN  [sensors EXCEPT
            !.temperature_c = @ + RoundDiv(temp_change * dt, 10000),
            !.humidity_percent =
                Clip(@ + RoundDiv(humidity_change * dt, 10000), 0, 100 * Scale),
            !.co2_ppm = Max(0, @ + RoundDiv(co2_change * dt, 2 * 60)),
            !.o2_percent =
                IF actions.led_power_percent > 50 * Scale
                THEN @ + RoundDiv(dt * O2Scale, 10000)
                ELSE @,
            !.timestamp = @ + dt]

\* the physical update with respiration: O2 falls while the LED power is
\* at 50% or less
plant_update_respire(sensors, actions, dt) ==
    LET temp_change ==
            actions.heater_power_percent * 10
            - (IF actions.cooler_active THEN 2 * Scale * 10 ELSE 0)
            - (sensors.temperature_c - (-20 * Scale))
        humidity_change ==
            actions.misting_rate_ml_min * 500
            - actions.vent_position_percent * 10
            - sensors.humidity_percent * 5
        co2_change ==
            actions.co2_injection_rate_ml_min * 10 * 2
            - 5 * Scale * 2
            - actions.vent_position_percent
    IN  [sensors EXCEPT
            !.temperature_c = @ + RoundDiv(temp_change * dt, 10000),
            !.humidity_percent =
                Clip(@ + RoundDiv(humidity_change * dt, 10000), 0, 100 * Scale),
            !.co2_ppm = Max(0, @ + RoundDiv(co2_change * dt, 2 * 60)),
            !.o2_percent =
                IF actions.led_power_percent > 50 * Scale
                THEN @ + RoundDiv(dt * O2Scale, 10000)
                ELSE @ - RoundDiv(dt * O2Scale, 10000),
            !.timestamp = @ + dt]

\* lines 480-512: the physical update of the sensors, which are mutated in
\* place
plant_update(sensors, actions, dt) ==
    LET \* temperature change per second, in 1/10000 of a unit
        temp_change ==
            actions.heater_power_percent * 10
            - (IF actions.cooler_active THEN 2 * Scale * 10 ELSE 0)
            - (sensors.temperature_c - (-20 * Scale))
        \* humidity change per second, in 1/10000 of a unit
        humidity_change ==
            actions.misting_rate_ml_min * 500
            - actions.vent_position_percent * 10
            - sensors.humidity_percent * 5
        \* co2 change per minute, in halves of a unit
        co2_change ==
            actions.co2_injection_rate_ml_min * 10 * 2
            - 5 * Scale * 2
            - actions.vent_position_percent
    IN  [sensors EXCEPT
            !.temperature_c = @ + RoundDiv(temp_change * dt, 10000),
            !.humidity_percent =
                Clip(@ + RoundDiv(humidity_change * dt, 10000), 0, 100 * Scale),
            !.co2_ppm = Max(0, @ + RoundDiv(co2_change * dt, 2 * 60)),
            !.o2_percent =
                IF actions.led_power_percent > 50 * Scale
                THEN @ + RoundDiv(dt * O2Scale, 10000)
                ELSE @,
            !.timestamp = @ + dt]

\* line 515 skipped in a step that returned the safe-state command
append_history_skip(self1, ret) ==
    [self |-> IF HasEmergency(self1.state.alerts) THEN self1
              ELSE [self1 EXCEPT !.history = Append(@, self1.state)],
     ret |-> ret]

\* line 515 without asdict: every record is the live state object itself
append_history_alias(self1, ret) ==
    [self |-> [self1 EXCEPT
                  !.history = [i \in 1..(Len(@) + 1) |-> self1.state]],
     ret |-> ret]

\* line 515: self.history.append(asdict(self.state))
append_history(self1, ret) ==
    [self |-> [self1 EXCEPT !.history = Append(@, self1.state)],
     ret |-> ret]

\* lines 480-515: the plant is advanced under the actions u.ret that
\* update_control returned, then the state is recorded
advance_plant(u, dt) ==
    append_history(
        [u.self EXCEPT !.state.sensors = plant_update(@, u.ret, dt)], u.ret)

\* AIEnvironmentalController.simulate_step(dt): the controller after the
\* call; ret is what its update_control call returned
simulate_step(self, dt) == advance_plant(update_control(self, dt), dt)

\* steps of run_simulation rounded up
run_steps_ceil(duration_hours, dt) ==
    -((-(duration_hours * 3600)) \div (dt * HourScale))

\* steps = int(duration_hours * 3600 / dt) in run_simulation, dt # 0
run_steps(duration_hours, dt) ==
    TruncDiv(duration_hours * 3600, dt * HourScale)

---------------------------------------------------------------------------
(* Bounds and input sets *)

\* control updates (update_control executions) per behaviour
MaxUpdates == 3

\* time steps dt, in seconds
DtValues == {-60, 0, 60}

\* (duration_hours in 1/HourScale hours, dt) of run_simulation calls:
\* -1 h and 0 h; 72 s by 60 s; 36 s by 18 s; 144 s by 50 s; 180 s by 60 s
RunInputs == { <<-100, 60>>, <<0, 50>>, <<2, 60>>, <<1, 18>>, <<4, 50>>, <<5, 60>> }

\* duration_hours of run_simulation calls with dt = 0
ZeroDtDurations == {5}

\* what the caller writes into a new controller before the first step: the
\* readings (T, H, CO2, O2, timestamp) and the setpoints (T, H, photoperiod)
ScenarioInputs ==
    { \* run_example: cold and dry at midnight, default setpoints
      [sensors |-> <<15 * Scale, 40 * Scale, 400 * Scale,
                     209 * (O2Scale \div 10), 0>>,
       setpoints |-> <<22 * Scale, 65 * Scale, 16 * Scale>>],
      \* hypoxia with every other reading out of range, at 08:00
      [sensors |-> <<29 * Scale, 95 * Scale, 6000 * Scale, 17 * O2Scale, 8 * 3600>>,
       setpoints |-> <<22 * Scale, 65 * Scale, 16 * Scale>>],
      \* O2 at the top of its domain under full light, readings on setpoint
      [sensors |-> <<25 * Scale, 50 * Scale, 100 * Scale, 100 * O2Scale, 8 * 3600>>,
       setpoints |-> <<25 * Scale, 50 * Scale, 16 * Scale>>],
      \* O2 exactly on the hypoxia threshold, lights never on
      [sensors |-> <<15 * Scale, 95 * Scale, 800 * Scale, 18 * O2Scale, 57000>>,
       setpoints |-> <<25 * Scale, 50 * Scale, 0>>] }

\* O2 readings injected between steps
O2Inputs == {18 * O2Scale - 1, 209 * (O2Scale \div 10)}

---------------------------------------------------------------------------
(* The controller as a state machine *)

Self ==
    [state |-> state, temp_controller |-> temp_controller,
     humidity_controller |-> humidity_controller,
     co2_controller |-> co2_controller, history |-> history]

SetSelf(self) ==
    /\ state' = self.state
    /\ temp_controller' = self.temp_controller
    /\ humidity_controller' = self.humidity_controller
    /\ co2_controller' = self.co2_controller
    /\ history' = self.history

\* no run_simulation call in progress or just returned
NoRun ==
    [remaining |-> 0, dt |-> 0, steps |-> 0, duration_hours |-> 0,
     start_len |-> 0, start_steps |-> 0]

Called(op, dt, ret) == [op |-> op, dt |-> dt, ret |-> ret]

\* the call op(dt) has left the controller as r.self and returned r.ret
Returned(r, op, dt) ==
    /\ SetSelf(r.self)
    /\ call' = Called(op, dt, r.ret)

\* controller = AIEnvironmentalController()
InitDome ==
    /\ state = AIEnvironmentalController.state
    /\ temp_controller = AIEnvironmentalController.temp_controller
    /\ humidity_controller = AIEnvironmentalController.humidity_controller
    /\ co2_controller = AIEnvironmentalController.co2_controller
    /\ history = AIEnvironmentalController.history
    /\ run = NoRun
    /\ call = Called("init", 0, ControlActions)
    /\ steps_done = 0
    /\ updates_done = 0

\* the caller sets the mode, the initial readings and the setpoints of a
\* new controller (run_example, _simulate_environmental_control)
Configure(mode, sc) ==
    /\ run.remaining = 0
    /\ updates_done = 0
    /\ state' = [state EXCEPT !.mode = mode,
                              !.sensors.temperature_c = sc.sensors[1],
                              !.sensors.humidity_percent = sc.sensors[2],
                              !.sensors.co2_ppm = sc.sensors[3],
                              !.sensors.o2_percent = sc.sensors[4],
                              !.sensors.timestamp = sc.sensors[5],
                              !.setpoints.temperature_c = sc.setpoints[1],
                              !.setpoints.humidity_percent = sc.setpoints[2],
                              !.setpoints.photoperiod_hours = sc.setpoints[3]]
    /\ call' = Called("configure", 0, ControlActions)
    /\ run' = NoRun
    /\ UNCHANGED <<temp_controller, humidity_controller, co2_controller,
                   history, steps_done, updates_done>>

\* an O2 reading is written into the sensors between two steps
InjectO2(v) ==
    /\ run.remaining = 0
    /\ updates_done > 0
    /\ updates_done < MaxUpdates
    /\ v # state.sensors.o2_percent
    /\ state' = [state EXCEPT !.sensors.o2_percent = v]
    /\ call' = Called("inject", 0, ControlActions)
    /\ run' = NoRun
    /\ UNCHANGED <<temp_controller, humidity_controller, co2_controller,
                   history, steps_done, updates_done>>

\* controller.update_control(dt)
UpdateControl(dt) ==
    /\ run.remaining = 0
    /\ updates_done < MaxUpdates
    /\ Returned(update_control(Self, dt), "update_control", dt)
    /\ updates_done' = updates_done + 1
    /\ run' = NoRun
    /\ UNCHANGED steps_done

\* controller.simulate_step(dt)
SimulateStep(dt) ==
    /\ run.remaining = 0
    /\ updates_done < MaxUpdates
    /\ Returned(simulate_step(Self, dt), "simulate_step", dt)
    /\ updates_done' = updates_done + 1
    /\ steps_done' = steps_done + 1
    /\ run' = NoRun

\* controller.run_simulation(duration_hours, dt): steps is computed and the
\* for loop is entered; range(steps) is empty when steps <= 0
RunSimulation(duration_hours, dt) ==
    /\ run.remaining = 0
    /\ dt # 0
    /\ LET steps == Max(run_steps(duration_hours, dt), 0)
       IN  /\ updates_done + steps <= MaxUpdates
           /\ run' = [remaining |-> steps, dt |-> dt, steps |-> steps,
                      duration_hours |-> duration_hours,
                      start_len |-> Len(history), start_steps |-> steps_done]
    /\ call' = Called("run_simulation", dt, ControlActions)
    /\ UNCHANGED <<state, temp_controller, humidity_controller, co2_controller,
                   history, steps_done, updates_done>>

\* controller.run_simulation(duration_hours, 0): the division raises
\* ZeroDivisionError
RunSimulationZeroDt(duration_hours) ==
    /\ run.remaining = 0
    /\ call.op # "run_simulation_error"
    /\ call' = Called("run_simulation_error", 0, ControlActions)
    /\ run' = NoRun
    /\ UNCHANGED <<state, temp_controller, humidity_controller, co2_controller,
                   history, steps_done, updates_done>>

\* one iteration of run_simulation's for loop: self.simulate_step(dt)
RunStep ==
    /\ run.remaining > 0
    /\ Returned(simulate_step(Self, run.dt), "run_step", run.dt)
    /\ run' = [run EXCEPT !.remaining = @ - 1]
    /\ updates_done' = updates_done + 1
    /\ steps_done' = steps_done + 1

\* a PIDController not used on its own
NoPid == PIDController(0, 0, 0, 0, 0)

\* what a call on pid was: its arguments and the value returned
PidCalled(op, setpoint, measured, dt, output) ==
    [op |-> op, setpoint |-> setpoint, measured |-> measured, dt |-> dt,
     output |-> output]

\* pid_call: the last call (last), the controller before it (before), the
\* call before that (prev) and the number of calls made (n)
NoPidCall ==
    [last |-> PidCalled("init", 0, 0, 0, 0), before |-> NoPid,
     prev |-> PidCalled("init", 0, 0, 0, 0), n |-> 0]

\* no second controller constructed
NoInstances ==
    [store |-> << >>, ctl |-> << >>, log |-> << >>, last |-> 0, switches |-> 0]

Init ==
    /\ InitDome
    /\ pid = NoPid
    /\ pid_call = NoPidCall
    /\ instances = NoInstances

Next ==
    \/ \E mode \in ControlMode, sc \in ScenarioInputs :
           Configure(mode, sc) /\ UNCHANGED restVars
    \/ \E v \in O2Inputs : InjectO2(v) /\ UNCHANGED restVars
    \/ \E dt \in DtValues : UpdateControl(dt) /\ UNCHANGED restVars
    \/ \E dt \in DtValues : SimulateStep(dt) /\ UNCHANGED restVars
    \/ \E r \in RunInputs : RunSimulation(r[1], r[2]) /\ UNCHANGED restVars
    \/ \E d \in ZeroDtDurations : RunSimulationZeroDt(d) /\ UNCHANGED restVars
    \/ RunStep /\ UNCHANGED restVars

Spec == Init /\ [][Next]_vars

---------------------------------------------------------------------------
(* A PID controller on its own *)

\* calls made on the controller per behaviour
MaxPidCalls == 3

\* (kp, ki, kd), in 1/GainScale
PidGainInputs == { <<200, 10, 50>>, <<200, 0, 0>>, <<2000, 0, 0>>, <<50, 2, 10>> }

\* (output_min, output_max)
PidBoundInputs == { <<-100 * Scale, 100 * Scale>>, <<0, 100 * Scale>>,
                    <<-5 * Scale, 5 * Scale>> }

PidSetpointInputs == {10 * Scale, 22 * Scale}

PidMeasuredInputs == {0, 15 * Scale, 30 * Scale}

PidDtInputs == {-1, 0, 1, 60}

\* pid = PIDController(kp, ki, kd, output_min, output_max)
InitPid ==
    /\ InitDome
    /\ pid \in { PIDController(g[1], g[2], g[3], b[1], b[2]) :
                    g \in PidGainInputs, b \in PidBoundInputs }
    /\ pid_call = NoPidCall
    /\ instances = NoInstances

\* pid.update(setpoint, measured, dt)
PidUpdate(setpoint, measured, dt) ==
    /\ pid_call.n < MaxPidCalls
    /\ LET r == PIDController_update(pid, setpoint, measured, dt)
       IN  /\ pid' = r.pid
           /\ pid_call' = [last |-> PidCalled("update", setpoint, measured, dt,
                                              r.output),
                           before |-> pid, prev |-> pid_call.last,
                           n |-> pid_call.n + 1]

\* pid.reset()
PidReset ==
    /\ pid_call.n < MaxPidCalls
    /\ pid' = PIDController_reset(pid)
    /\ pid_call' = [last |-> PidCalled("reset", 0, 0, 0, 0), before |-> pid,
                    prev |-> pid_call.last, n |-> pid_call.n + 1]

NextPid ==
    \/ \E sp \in PidSetpointInputs, m \in PidMeasuredInputs, dt \in PidDtInputs :
           PidUpdate(sp, m, dt) /\ UNCHANGED <<domeVars, instances>>
    \/ PidReset /\ UNCHANGED <<domeVars, instances>>

SpecPid == InitPid /\ [][NextPid]_vars

---------------------------------------------------------------------------
(* The alert evaluator called on its own *)

\* readings passed to check_alerts: on, next to and beyond every threshold
AlertTemperatureInputs ==
    {22 * Scale, 24 * Scale, 25 * Scale, 26 * Scale, 26 * Scale + 1,
     27 * Scale, 28 * Scale, 28 * Scale + 1, 29 * Scale,
     18 * Scale, 16 * Scale, 16 * Scale - 1}

AlertHumidityInputs ==
    {65 * Scale, 55 * Scale, 85 * Scale, 85 * Scale + 1, 45 * Scale - 1}

AlertCo2Inputs ==
    {150 * Scale, 200 * Scale - 1, 200 * Scale, 800 * Scale, 5000 * Scale,
     5000 * Scale + 1}

AlertO2Inputs ==
    {17 * O2Scale, 18 * O2Scale - 1, 18 * O2Scale, 209 * (O2Scale \div 10),
     23 * O2Scale, 23 * O2Scale + 1}

\* setpoints passed to check_alerts: the defaults; narrower temperature and
\* humidity bands; CO2 and O2 bands below the absolute thresholds
AlertSetpointInputs ==
    { EnvironmentalSetpoints,
      [EnvironmentalSetpoints EXCEPT
          !.temperature_c = 25 * Scale, !.temperature_tolerance = 1 * Scale,
          !.humidity_percent = 60 * Scale, !.humidity_tolerance = 5 * Scale],
      [EnvironmentalSetpoints EXCEPT
          !.co2_ppm = 150 * Scale, !.co2_tolerance = 50 * Scale,
          !.o2_percent = 17 * O2Scale, !.o2_tolerance = 1 * O2Scale] }

\* DomeSensors(temperature_c=t, humidity_percent=h, co2_ppm=c, o2_percent=o)
SensorsOf(t, h, c, o) ==
    [DomeSensors EXCEPT !.temperature_c = t, !.humidity_percent = h,
                        !.co2_ppm = c, !.o2_percent = o]

\* controller.check_alerts(sensors, setpoints): the arguments and the list
\* returned are recorded; the method assigns nothing
CheckAlerts(sensors, setpoints) ==
    /\ call' = Called("check_alerts", 0,
                      [sensors |-> sensors, setpoints |-> setpoints,
                       alerts |-> check_alerts(sensors, setpoints)])
    /\ run' = NoRun
    /\ UNCHANGED <<state, temp_controller, humidity_controller, co2_controller,
                   history, steps_done, updates_done>>

NextAlerts ==
    \/ \E sc \in ScenarioInputs : Configure("GROWING", sc) /\ UNCHANGED restVars
    \/ \* one call is looked at between two configurations of the controller
       /\ call.op # "check_alerts"
       /\ \E t \in AlertTemperatureInputs, h \in AlertHumidityInputs,
             c \in AlertCo2Inputs, o \in AlertO2Inputs,
             sp \in AlertSetpointInputs :
              CheckAlerts(SensorsOf(t, h, c, o), sp) /\ UNCHANGED restVars

SpecAlerts == Init /\ [][NextAlerts]_vars

---------------------------------------------------------------------------
(* The lighting scheduler called on its own *)

\* hours of day passed to calculate_lighting_control, in seconds (multiples
\* of 36 s, one hundredth of an hour): both ramps, their ends, the plateau,
\* the night, hours beyond 24 and a negative hour
LightingHourInputs ==
    {0, 36, 1800, 3564, 3600, 3636, 5400, 7164, 7200, 7236, 9000,
     8 * 3600, 11 * 3600, 11 * 3600 + 36, 12 * 3600, 15 * 3600,
     15 * 3600 + 36, 55800, 57564, 57600, 20 * 3600, 23 * 3600, 84600,
     86364, 86400, 86400 + 1800, 86400 + 55800, -1800}

\* photoperiods, in 1/Scale hours: 2 h, 2.5 h, 12 h, 16 h, 24 h
LightingPhotoperiodInputs ==
    {2 * Scale, 2 * Scale + 500, 12 * Scale, 16 * Scale, 24 * Scale}

\* controller.calculate_lighting_control(hour, photoperiod): the arguments
\* and the LED power returned are recorded; the method assigns nothing
CalculateLighting(hour_secs, photoperiod) ==
    /\ call' = Called("calculate_lighting_control", 0,
                      [hour_secs |-> hour_secs, photoperiod |-> photoperiod,
                       led_power |->
                           calculate_lighting_control(hour_secs, photoperiod)])
    /\ run' = NoRun
    /\ UNCHANGED <<state, temp_controller, humidity_controller, co2_controller,
                   history, steps_done, updates_done>>

NextLighting ==
    \E hour_secs \in LightingHourInputs, photoperiod \in LightingPhotoperiodInputs :
        CalculateLighting(hour_secs, photoperiod) /\ UNCHANGED restVars

SpecLighting == Init /\ [][NextLighting]_vars

---------------------------------------------------------------------------
(* The 24 hour example run *)

\* run_example and _simulate_environmental_control: cold and dry at
\* midnight, CO2 at 400 ppm, O2 at its default, the default setpoints
ExampleScenario ==
    [sensors |-> <<15 * Scale, 40 * Scale, 400 * Scale,
                   209 * (O2Scale \div 10), 0>>,
     setpoints |-> <<22 * Scale, 65 * Scale, 16 * Scale>>]

\* controller.run_simulation(duration_hours=24, dt=60) on the configured
\* controller: steps is computed and the for loop is entered
RunExample ==
    /\ run.remaining = 0
    /\ updates_done = 0
    /\ call.op = "configure"
    /\ run' = [remaining |-> Max(run_steps(24 * HourScale, 60), 0), dt |-> 60,
               steps |-> Max(run_steps(24 * HourScale, 60), 0),
               duration_hours |-> 24 * HourScale,
               start_len |-> Len(history), start_steps |-> steps_done]
    /\ call' = Called("run_simulation", 60, ControlActions)
    /\ UNCHANGED <<state, temp_controller, humidity_controller, co2_controller,
                   history, steps_done, updates_done>>

NextExample ==
    \/ Configure("GROWING", ExampleScenario) /\ UNCHANGED restVars
    \/ RunExample /\ UNCHANGED restVars
    \/ RunStep /\ UNCHANGED restVars

SpecExample == Init /\ [][NextExample]_vars

---------------------------------------------------------------------------
(* A PID controller constructed with output_min > output_max *)

\* (output_min, output_max) with output_min > output_max
PidInvertedBoundInputs == { <<5 * Scale, -5 * Scale>>, <<100 * Scale, 0>> }

\* pid = PIDController(kp, ki, kd, output_min, output_max): __init__ stores
\* its arguments and compares nothing
InitPidInverted ==
    /\ InitDome
    /\ pid \in { PIDController(g[1], g[2], g[3], b[1], b[2]) :
                    g \in PidGainInputs, b \in PidInvertedBoundInputs }
    /\ pid_call = NoPidCall
    /\ instances = NoInstances

SpecPidInverted == InitPidInverted /\ [][NextPid]_vars

---------------------------------------------------------------------------
(* The humidity control called on its own *)

\* calculate_humidity_control calls per behaviour
MaxHumidityCalls == 2

\* current humidity readings, humidity setpoints and time steps
HumidityCurrentInputs ==
    {0, 40 * Scale, 65 * Scale, 65 * Scale + 1, 66 * Scale, 95 * Scale,
     100 * Scale}

HumiditySetpointInputs == {50 * Scale, 65 * Scale}

HumidityDtInputs == {-60, 0, 1, 60}

\* the number of calculate_humidity_control calls made so far
HumidityCalls ==
    IF call.op = "calculate_humidity_control" THEN call.ret.n ELSE 0

\* h is what calculate_humidity_control(current, setpoint, dt) computed: the
\* humidity controller is left as its update call left it; the arguments,
\* the controller before the call and the pair returned are recorded
HumidityReturned(h, current, setpoint, dt) ==
    /\ humidity_controller' = h.pid
    /\ call' = Called("calculate_humidity_control", dt,
                      [current |-> current, setpoint |-> setpoint,
                       before |-> humidity_controller,
                       misting |-> h.misting, venting |-> h.venting,
                       n |-> HumidityCalls + 1])

\* controller.calculate_humidity_control(current, setpoint, dt)
CalculateHumidity(current, setpoint, dt) ==
    /\ HumidityReturned(
           calculate_humidity_control(humidity_controller, current, setpoint, dt),
           current, setpoint, dt)
    /\ run' = NoRun
    /\ UNCHANGED <<state, temp_controller, co2_controller, history,
                   steps_done, updates_done>>

NextHumidity ==
    /\ HumidityCalls < MaxHumidityCalls
    /\ \E current \in HumidityCurrentInputs, setpoint \in HumiditySetpointInputs,
          dt \in HumidityDtInputs :
           CalculateHumidity(current, setpoint, dt) /\ UNCHANGED restVars

SpecHumidity == Init /\ [][NextHumidity]_vars

---------------------------------------------------------------------------
(* update_control at the ends of the actuator ranges *)

\* readings (T, H, CO2, O2, timestamp) and setpoints (T, H, photoperiod)
\* that drive the actuators to the ends of their ranges: deep cold and dry
\* on the sunset ramp; overheated and humid at night; every reading on its
\* setpoint under full light; hypoxia on the sunrise ramp
ExtremeScenarioInputs ==
    { [sensors |-> <<-40 * Scale, 0, 0, 209 * (O2Scale \div 10), 55800>>,
       setpoints |-> <<22 * Scale, 65 * Scale, 16 * Scale>>],
      [sensors |-> <<60 * Scale, 100 * Scale, 5000 * Scale,
                     209 * (O2Scale \div 10), 20 * 3600>>,
       setpoints |-> <<22 * Scale, 65 * Scale, 16 * Scale>>],
      [sensors |-> <<22 * Scale, 65 * Scale, 800 * Scale,
                     209 * (O2Scale \div 10), 8 * 3600>>,
       setpoints |-> <<22 * Scale, 65 * Scale, 16 * Scale>>],
      [sensors |-> <<-20 * Scale, 0, 0, 17 * O2Scale, 1800>>,
       setpoints |-> <<22 * Scale, 65 * Scale, 16 * Scale>>] }

NextCommand ==
    \/ \E sc \in ExtremeScenarioInputs :
           Configure("GROWING", sc) /\ UNCHANGED restVars
    \/ \E dt \in DtValues : UpdateControl(dt) /\ UNCHANGED restVars
    \/ \E dt \in DtValues : SimulateStep(dt) /\ UNCHANGED restVars

SpecCommand == Init /\ [][NextCommand]_vars

---------------------------------------------------------------------------
(* Runs under a sustained Emergency *)

\* hypoxic domes (O2 at 17%) at 08:00 with CO2 readings of 0, 30, 100, 400
\* and 800 ppm, the default setpoints
PurgeScenarioInputs ==
    { [sensors |-> <<22 * Scale, 65 * Scale, c * Scale, 17 * O2Scale, 8 * 3600>>,
       setpoints |-> <<22 * Scale, 65 * Scale, 16 * Scale>>] :
        c \in {0, 30, 100, 400, 800} }

\* (duration_hours in 1/HourScale hours, dt) of the runs: 36 steps of 60 s,
\* 36 steps of 30 s, 50 steps of 18 s and 4 steps of 45 s
PurgeRunInputs == { <<60, 60>>, <<30, 30>>, <<25, 18>>, <<5, 45>> }

\* controller.run_simulation(duration_hours, dt) on the configured
\* controller: steps is computed and the for loop is entered
RunPurge(duration_hours, dt) ==
    /\ run.remaining = 0
    /\ updates_done = 0
    /\ call.op = "configure"
    /\ run' = [remaining |-> Max(run_steps(duration_hours, dt), 0), dt |-> dt,
               steps |-> Max(run_steps(duration_hours, dt), 0),
               duration_hours |-> duration_hours,
               start_len |-> Len(history), start_steps |-> steps_done]
    /\ call' = Called("run_simulation", dt, ControlActions)
    /\ UNCHANGED <<state, temp_controller, humidity_controller, co2_controller,
                   history, steps_done, updates_done>>

NextPurge ==
    \/ \E sc \in PurgeScenarioInputs :
           Configure("GROWING", sc) /\ UNCHANGED restVars
    \/ \E r \in PurgeRunInputs : RunPurge(r[1], r[2]) /\ UNCHANGED restVars
    \/ RunStep /\ UNCHANGED restVars

\* run_simulation's for loop is synchronous and nothing in it blocks, so an
\* iteration that is due is executed
SpecPurge ==
    Init /\ [][NextPurge]_vars /\ WF_vars(RunStep /\ UNCHANGED restVars)

---------------------------------------------------------------------------
(* Two controller objects.  A Python object is reached through references: *)
(* instances.store holds the mutable objects, an object's address is its   *)
(* position in the store, and a controller holds the addresses of its      *)
(* DomeState, of its three PID controllers and of its history list.  A     *)
(* call reads the objects its controller refers to and writes them in      *)
(* place.  The actions and the alerts of a DomeState are rebound by        *)
(* assignment (lines 403 and 448), so they are kept as fields of the       *)
(* DomeState object.                                                       *)

\* simulate_step calls per controller
MaxInstanceSteps == 2

\* time steps of the calls, in seconds
InstanceDtInputs == {30, 60}

\* what the caller writes into a controller before its first step: a cold,
\* dry dome at 08:00 and a hypoxic dome at 08:00, the default setpoints
InstanceScenarioInputs ==
    { [sensors |-> <<15 * Scale, 40 * Scale, 400 * Scale,
                     209 * (O2Scale \div 10), 8 * 3600>>,
       setpoints |-> <<22 * Scale, 65 * Scale, 16 * Scale>>],
      [sensors |-> <<29 * Scale, 95 * Scale, 6000 * Scale, 17 * O2Scale, 8 * 3600>>,
       setpoints |-> <<22 * Scale, 65 * Scale, 16 * Scale>>] }

\* DomeState() with sensors declared with a default value in place of a
\* default_factory: every DomeState refers to the DomeSensors object made
\* first
new_DomeState_shared(store) ==
    [store |-> store \o << DomeSensors, EnvironmentalSetpoints,
                           [mode |-> DomeState.mode,
                            sensors |-> 1,
                            setpoints |-> Len(store) + 2,
                            actions |-> DomeState.actions,
                            alerts |-> DomeState.alerts,
                            energy_consumption_w |->
                                DomeState.energy_consumption_w] >>,
     ref |-> Len(store) + 3]

\* DomeState(): the default_factory of each field makes a new DomeSensors
\* and a new EnvironmentalSetpoints object (and new actions and alerts)
new_DomeState(store) ==
    [store |-> store \o << DomeSensors, EnvironmentalSetpoints,
                           [mode |-> DomeState.mode,
                            sensors |-> Len(store) + 1,
                            setpoints |-> Len(store) + 2,
                            actions |-> DomeState.actions,
                            alerts |-> DomeState.alerts,
                            energy_consumption_w |->
                                DomeState.energy_consumption_w] >>,
     ref |-> Len(store) + 3]

\* __init__ after self.state = DomeState(), which left d: three new
\* PIDController objects and a new empty list
new_controllers_and_history(d) ==
    [store |-> d.store \o << AIEnvironmentalController.temp_controller,
                             AIEnvironmentalController.humidity_controller,
                             AIEnvironmentalController.co2_controller,
                             [items |-> AIEnvironmentalController.history] >>,
     ref |-> [state |-> d.ref,
              temp_controller |-> Len(d.store) + 1,
              humidity_controller |-> Len(d.store) + 2,
              co2_controller |-> Len(d.store) + 3,
              history |-> Len(d.store) + 4]]

\* AIEnvironmentalController(): the store after the construction and the
\* new controller
new_AIEnvironmentalController(store) ==
    new_controllers_and_history(new_DomeState(store))

\* the controller c as the calls on it see it
Deref(store, c) ==
    [state |-> [mode |-> store[c.state].mode,
                sensors |-> store[store[c.state].sensors],
                setpoints |-> store[store[c.state].setpoints],
                actions |-> store[c.state].actions,
                alerts |-> store[c.state].alerts,
                energy_consumption_w |-> store[c.state].energy_consumption_w],
     temp_controller |-> store[c.temp_controller],
     humidity_controller |-> store[c.humidity_controller],
     co2_controller |-> store[c.co2_controller],
     history |-> store[c.history].items]

\* the store after a call on c that left c as self: every object c refers
\* to is written in place
WriteBack(store, c, self) ==
    [i \in 1..Len(store) |->
        IF i = c.state
        THEN [store[i] EXCEPT
                 !.mode = self.state.mode,
                 !.actions = self.state.actions,
                 !.alerts = self.state.alerts,
                 !.energy_consumption_w = self.state.energy_consumption_w]
        ELSE IF i = store[c.state].sensors THEN self.state.sensors
        ELSE IF i = store[c.state].setpoints THEN self.state.setpoints
        ELSE IF i = c.temp_controller THEN self.temp_controller
        ELSE IF i = c.humidity_controller THEN self.humidity_controller
        ELSE IF i = c.co2_controller THEN self.co2_controller
        ELSE IF i = c.history THEN [items |-> self.history]
        ELSE store[i]]

\* the caller sets the mode, the readings and the setpoints of self
configured(self, mode, sc) ==
    [self EXCEPT !.state.mode = mode,
                 !.state.sensors.temperature_c = sc.sensors[1],
                 !.state.sensors.humidity_percent = sc.sensors[2],
                 !.state.sensors.co2_ppm = sc.sensors[3],
                 !.state.sensors.o2_percent = sc.sensors[4],
                 !.state.sensors.timestamp = sc.sensors[5],
                 !.state.setpoints.temperature_c = sc.setpoints[1],
                 !.state.setpoints.humidity_percent = sc.setpoints[2],
                 !.state.setpoints.photoperiod_hours = sc.setpoints[3]]

\* what is remembered of the calls on one controller: how it was
\* configured, the dt of each simulate_step call and what the update_control
\* call inside each returned
NoLog ==
    [configured |-> FALSE, mode |-> DomeState.mode,
     sc |-> [sensors |-> << >>, setpoints |-> << >>],
     dts |-> << >>, rets |-> << >>]

\* a = AIEnvironmentalController(); b = AIEnvironmentalController()
TwoControllers(a, b) ==
    [store |-> b.store, ctl |-> <<a.ref, b.ref>>, log |-> <<NoLog, NoLog>>,
     last |-> 0, switches |-> 0]

InitInstances ==
    /\ InitDome
    /\ pid = NoPid
    /\ pid_call = NoPidCall
    /\ instances =
           TwoControllers(
               new_AIEnvironmentalController(<< >>),
               new_AIEnvironmentalController(
                   new_AIEnvironmentalController(<< >>).store))

\* the caller configures controller k before its first step
InstanceConfigure(k, mode, sc) ==
    /\ ~instances.log[k].configured
    /\ instances' =
           [instances EXCEPT
               !.store = WriteBack(@, instances.ctl[k],
                             configured(Deref(@, instances.ctl[k]), mode, sc)),
               !.log[k] = [configured |-> TRUE, mode |-> mode, sc |-> sc,
                           dts |-> << >>, rets |-> << >>]]
    /\ UNCHANGED <<domeVars, pidVars>>

\* the instances after the simulate_step(dt) call on controller k that
\* left it as r.self; last is the controller stepped last and switches
\* counts the steps made on another controller than the step before
Stepped(inst, k, dt, r) ==
    [inst EXCEPT !.store = WriteBack(@, inst.ctl[k], r.self),
                 !.log[k].dts = Append(@, dt),
                 !.log[k].rets = Append(@, r.ret),
                 !.last = k,
                 !.switches = IF inst.last \in {0, k} THEN @ ELSE @ + 1]

\* controllers[k].simulate_step(dt)
InstanceStep(k, dt) ==
    /\ instances.log[k].configured
    /\ Len(instances.log[k].dts) < MaxInstanceSteps
    /\ instances' =
           Stepped(instances, k, dt,
                   simulate_step(Deref(instances.store, instances.ctl[k]), dt))
    /\ UNCHANGED <<domeVars, pidVars>>

NextInstances ==
    \/ \E k \in 1..2, mode \in ControlMode, sc \in InstanceScenarioInputs :
           InstanceConfigure(k, mode, sc)
    \/ \E k \in 1..2, dt \in InstanceDtInputs : InstanceStep(k, dt)

SpecInstances == InitInstances /\ [][NextInstances]_vars

---------------------------------------------------------------------------
(* Properties of the control loop (specification Spec) *)

\* the safe-state command of the design: zero heater, cooler off, zero
\* misting, full vent, zero CO2 injection, zero LED power, fan at 2000 RPM
SafeStateCommand ==
    [heater_power_percent |-> 0, cooler_active |-> FALSE,
     misting_rate_ml_min |-> 0, vent_position_percent |-> 100 * Scale,
     co2_injection_rate_ml_min |-> 0, led_power_percent |-> 0,
     circulation_fan_rpm |-> 2000 * Scale]

\* the calls that execute update_control
ControlOps == {"update_control", "simulate_step", "run_step"}

\* the calls that execute simulate_step
StepOps == {"simulate_step", "run_step"}

\* this transition executes update_control once
ControlStep == updates_done' = updates_done + 1

\* this transition executes simulate_step once
SimStep == steps_done' = steps_done + 1

\* C1: every update_control call that starts with an O2 reading below 18%
\* returns exactly the safe-state command, whatever the mode, the setpoints,
\* the other readings and the state of the PID controllers are.
C1_SafeStateOnLowO2 ==
    [][ (ControlStep /\ state.sensors.o2_percent < 18 * O2Scale)
            => call'.ret = SafeStateCommand ]_vars

\* C1 witness: a standalone update_control call made with O2 below 18%, a
\* wound-up temperature controller and a mode configured as Growing has
\* returned the safe-state command.
C1_Witness ==
    /\ call.op = "update_control"
    /\ state.sensors.o2_percent < 18 * O2Scale
    /\ call.ret = SafeStateCommand
    /\ temp_controller.integral # 0
    /\ updates_done >= 2

\* C2 (as claimed): after every control step that leaves the mode Emergency,
\* the actuator command held in DomeState is the safe-state command, and so
\* is the command in the record a simulate_step appended.
C2_EmergencyActionsAreSafeState ==
    (call.op \in ControlOps /\ state.mode = "EMERGENCY")
        => /\ state.actions = SafeStateCommand
           /\ call.op \in StepOps =>
                  history[Len(history)].actions = SafeStateCommand

\* C3: a control step changes the mode only into Emergency and only when its
\* alerts hold an Emergency alert; without one the mode is kept, and an
\* Emergency mode is never left, also when O2 is back at 18% or more.
C3_ModeOnlyEntersEmergency ==
    [][ ControlStep =>
            /\ HasEmergency(state'.alerts) => state'.mode = "EMERGENCY"
            /\ ~HasEmergency(state'.alerts) => state'.mode = state.mode
            /\ state.mode = "EMERGENCY" => state'.mode = "EMERGENCY" ]_vars

\* C3 witness: a step without an Emergency alert (O2 back above 18%) has
\* followed a step that raised one from a non-Emergency mode, and the mode
\* is still Emergency.
C3_Witness ==
    /\ call.op = "simulate_step"
    /\ Len(history) >= 3
    /\ history[1].mode # "EMERGENCY"
    /\ HasEmergency(history[2].alerts)
    /\ ~HasEmergency(history[3].alerts)
    /\ state.sensors.o2_percent >= 18 * O2Scale
    /\ state.mode = "EMERGENCY"

\* the energy draw of an actuator command, in W
EnergyDraw(a) ==
    a.heater_power_percent * 2 + (IF a.cooler_active THEN 60 * Scale ELSE 0)
        + a.led_power_percent + (a.circulation_fan_rpm * 2) \div 100

\* C4 (as claimed): after every control step, safe-state steps included,
\* the stored energy draw is the energy formula applied to the command
\* issued in that step.
C4_EnergyRecomputedEveryStep ==
    call.op \in ControlOps => state.energy_consumption_w = EnergyDraw(call.ret)

\* C5: the history holds one record per completed simulate_step; a step
\* appends exactly one record, a snapshot of the state, at the end and
\* leaves the earlier records alone; the new record's timestamp is the
\* previous record's plus the step's dt, so strictly larger for dt > 0.
C5_HistoryOneRecordPerStep ==
    /\ [](Len(history) = steps_done)
    /\ [][ SimStep =>
            /\ Len(history') = Len(history) + 1
            /\ SubSeq(history', 1, Len(history)) = history
            /\ history'[Len(history')] = state'
            /\ Len(history) >= 1 =>
                 /\ history'[Len(history')].sensors.timestamp =
                        history[Len(history)].sensors.timestamp + call'.dt
                 /\ call'.dt > 0 =>
                        history'[Len(history')].sensors.timestamp >
                            history[Len(history)].sensors.timestamp ]_vars

\* C5 witness: three steps, one of them an Emergency step and the last one
\* made by run_simulation, have left three records with increasing
\* timestamps.
C5_Witness ==
    /\ steps_done = 3
    /\ Len(history) = 3
    /\ call.op = "run_step"
    /\ \E i \in 1..3 : HasEmergency(history[i].alerts)
    /\ history[1].sensors.timestamp < history[2].sensors.timestamp
    /\ history[2].sensors.timestamp < history[3].sensors.timestamp

\* run_simulation has just returned
RunReturned == call.op \in {"run_simulation", "run_step"} /\ run.remaining = 0

\* ceil(duration_hours * 3600 / dt) and floor(duration_hours * 3600 / dt),
\* for positive arguments
CeilSteps(duration_hours, dt) ==
    (duration_hours * 3600 + dt * HourScale - 1) \div (dt * HourScale)

FloorSteps(duration_hours, dt) == (duration_hours * 3600) \div (dt * HourScale)

\* C6 (as claimed): run_simulation(duration_hours, dt) with positive
\* arguments executes simulate_step ceil(duration_hours * 3600 / dt) times
\* and the history grows by that many records.
C6_RunExecutesCeilSteps ==
    (RunReturned /\ run.duration_hours > 0 /\ run.dt > 0)
        => /\ steps_done - run.start_steps = CeilSteps(run.duration_hours, run.dt)
           /\ Len(history) - run.start_len = CeilSteps(run.duration_hours, run.dt)

\* C6 (amended): run_simulation(duration_hours, dt) with positive arguments
\* executes simulate_step floor(duration_hours * 3600 / dt) times, the
\* quotient truncated, and the history grows by that many records.
C6_RunExecutesFloorSteps ==
    (RunReturned /\ run.duration_hours > 0 /\ run.dt > 0)
        => /\ steps_done - run.start_steps = FloorSteps(run.duration_hours, run.dt)
           /\ Len(history) - run.start_len = FloorSteps(run.duration_hours, run.dt)

\* C6 witness: a run whose duration is not a multiple of dt (144 s by 50 s)
\* has returned after two steps.
C6_Witness ==
    /\ RunReturned
    /\ run.duration_hours > 0
    /\ run.dt > 0
    /\ (run.duration_hours * 3600) % (run.dt * HourScale) # 0
    /\ steps_done - run.start_steps = 2
    /\ Len(history) - run.start_len = 2

\* C15: a simulate_step that starts with the humidity in [0, 100] and the
\* CO2 at 0 or more ends with the humidity in [0, 100] and the CO2 at 0 or
\* more, for positive, zero and negative dt and for normal and safe-state
\* commands alike.
C15_HumidityAndCo2Clamped ==
    [][ (SimStep /\ state.sensors.humidity_percent >= 0
                 /\ state.sensors.humidity_percent <= 100 * Scale
                 /\ state.sensors.co2_ppm >= 0)
            => /\ state'.sensors.humidity_percent >= 0
               /\ state'.sensors.humidity_percent <= 100 * Scale
               /\ state'.sensors.co2_ppm >= 0 ]_vars

\* the humidity a step would have left without clamping, from the record
\* before the step, the command the step returned and its dt
UnclampedHumidity(before, cmd, dt) ==
    before.sensors.humidity_percent
        + RoundDiv((cmd.misting_rate_ml_min * 500 - cmd.vent_position_percent * 10
                        - before.sensors.humidity_percent * 5) * dt, 10000)

\* C15 witness: a safe-state step with a negative dt has computed a
\* humidity above 100 and has recorded exactly 100, with the CO2 at 0 or
\* more.
C15_Witness ==
    /\ call.op \in StepOps
    /\ call.ret = SafeStateCommand
    /\ call.dt < 0
    /\ Len(history) >= 2
    /\ UnclampedHumidity(history[Len(history) - 1], call.ret, call.dt)
           > 100 * Scale
    /\ state.sensors.humidity_percent = 100 * Scale
    /\ state.sensors.co2_ppm >= 0

\* C16 (as claimed): a step that starts with the O2 reading within 0..100%
\* ends with the O2 reading within 0..100%.
C16_O2WithinDomain ==
    [][ (SimStep /\ state.sensors.o2_percent >= 0
                 /\ state.sensors.o2_percent <= 100 * O2Scale)
            => /\ state'.sensors.o2_percent >= 0
               /\ state'.sensors.o2_percent <= 100 * O2Scale ]_vars

\* C18 (as claimed): a run_simulation call with duration_hours <= 0 ends
\* in an error at its start: no such call gets past the computation of
\* steps and returns normally.
C18_NonPositiveDurationRejected ==
    ~(call.op = "run_simulation" /\ run.duration_hours <= 0)

\* C22: a history record is an immutable snapshot: no simulate_step,
\* update_control or run_simulation step, and no write to the live state
\* between steps, changes any field of a record appended earlier; the
\* history only grows at its end.
C22_HistoryRecordsImmutable ==
    [][ /\ Len(history') >= Len(history)
        /\ \A i \in 1..Len(history) : history'[i] = history[i] ]_vars

\* C22 witness: after two recorded steps, a later update_control call has
\* mutated the live state, whose sensors, actions, alerts and energy now
\* differ from those of the last record and whose mode differs from that of
\* the first record.
C22_Witness ==
    /\ call.op = "update_control"
    /\ Len(history) = 2
    /\ history[1].mode # state.mode
    /\ history[2].sensors # state.sensors
    /\ history[2].actions # state.actions
    /\ history[2].alerts # state.alerts
    /\ history[2].energy_consumption_w # state.energy_consumption_w

\* C24: a control step whose alerts hold an Emergency alert leaves the
\* integral accumulator and the last_error of the temperature, humidity and
\* CO2 PID controllers as they were before the step.
C24_EmergencyBypassesControllers ==
    [][ (ControlStep /\ HasEmergency(state'.alerts))
            => /\ temp_controller'.integral = temp_controller.integral
               /\ temp_controller'.last_error = temp_controller.last_error
               /\ humidity_controller'.integral = humidity_controller.integral
               /\ humidity_controller'.last_error = humidity_controller.last_error
               /\ co2_controller'.integral = co2_controller.integral
               /\ co2_controller'.last_error = co2_controller.last_error ]_vars

\* C24 witness: a simulate_step with an Emergency alert has followed a
\* normal step that left all three controllers with a non-zero integral and
\* a non-zero last_error, and they are still non-zero.
C24_Witness ==
    /\ call.op \in StepOps
    /\ HasEmergency(state.alerts)
    /\ Len(history) >= 2
    /\ ~HasEmergency(history[Len(history) - 1].alerts)
    /\ temp_controller.integral # 0
    /\ temp_controller.last_error # 0
    /\ humidity_controller.integral # 0
    /\ humidity_controller.last_error # 0
    /\ co2_controller.integral # 0
    /\ co2_controller.last_error # 0

\* the records appended by the run_simulation call in progress or just
\* returned
RunRecords == (run.start_len + 1)..Len(history)

\* C26: a simulate_step that starts with O2 below 18% leaves the O2 reading
\* unchanged, raises the Emergency alert and issues the safe-state command;
\* so within a run, where nothing else writes the sensors, every step after
\* a step that saw O2 below 18% raises the Emergency alert again, issues the
\* safe-state command again and leaves the same O2 reading.
C26_EmergencyLatches ==
    /\ [][ (SimStep /\ state.sensors.o2_percent < 18 * O2Scale)
              => /\ state'.sensors.o2_percent = state.sensors.o2_percent
                 /\ HasEmergency(state'.alerts)
                 /\ state'.mode = "EMERGENCY"
                 /\ call'.ret = SafeStateCommand ]_vars
    /\ [](call.op = "run_step" =>
            \A i \in RunRecords : \A j \in RunRecords :
                (i < j /\ HasEmergency(history[i].alerts))
                    => /\ HasEmergency(history[j].alerts)
                       /\ history[j].mode = "EMERGENCY"
                       /\ history[j].sensors.o2_percent =
                              history[i].sensors.o2_percent
                       /\ j = Len(history) => call.ret = SafeStateCommand)

\* C26 witness: a run of three steps started with O2 at 17% has
\* returned; all three records hold the Emergency
\* alert and the O2 reading the run started with.
C26_Witness ==
    /\ call.op = "run_step"
    /\ run.remaining = 0
    /\ run.steps = 3
    /\ Len(history) = 3
    /\ \A i \in 1..3 : /\ HasEmergency(history[i].alerts)
                        /\ history[i].sensors.o2_percent = 17 * O2Scale
    /\ call.ret = SafeStateCommand

\* C27: a simulate_step with dt > 0 never lowers the O2 reading; started
\* with O2 at 18% or more and a non-Emergency mode it raises no Emergency
\* alert, keeps the mode non-Emergency and leaves O2 at 18% or more, so
\* over the steps of a run with dt > 0 the O2 reading is non-decreasing and
\* a record without Emergency is never followed by one with Emergency.
C27_O2NeverLowered ==
    /\ [][ (SimStep /\ call'.dt > 0)
              => /\ state'.sensors.o2_percent >= state.sensors.o2_percent
                 /\ (state.sensors.o2_percent >= 18 * O2Scale
                        /\ state.mode # "EMERGENCY")
                      => /\ ~HasEmergency(state'.alerts)
                         /\ state'.mode # "EMERGENCY"
                         /\ state'.sensors.o2_percent >= 18 * O2Scale ]_vars
    /\ []((call.op = "run_step" /\ run.dt > 0) =>
            \A i \in RunRecords : \A j \in RunRecords :
                i < j =>
                    /\ history[i].sensors.o2_percent
                           <= history[j].sensors.o2_percent
                    /\ (~HasEmergency(history[i].alerts)
                           /\ history[i].mode # "EMERGENCY")
                         => /\ ~HasEmergency(history[j].alerts)
                            /\ history[j].mode # "EMERGENCY")

\* C27 witness: a run of three steps with dt > 0 has returned with the O2
\* reading higher in each record than in the one before, no Emergency alert
\* in any record and a non-Emergency mode.
C27_Witness ==
    /\ call.op = "run_step"
    /\ run.remaining = 0
    /\ run.dt > 0
    /\ Len(history) = 3
    /\ run.start_len = 0
    /\ history[1].sensors.o2_percent < history[2].sensors.o2_percent
    /\ history[2].sensors.o2_percent < history[3].sensors.o2_percent
    /\ \A i \in 1..3 : ~HasEmergency(history[i].alerts)
    /\ state.mode # "EMERGENCY"

\* C28: in every reachable state and in every history record the stored
\* energy is the energy formula applied to the actions stored beside it;
\* a control step with an Emergency alert leaves both the stored actions
\* and the stored energy as the last normal step (or the construction)
\* left them.
C28_StoredEnergyMatchesStoredActions ==
    /\ [](/\ state.energy_consumption_w = EnergyDraw(state.actions)
          /\ \A i \in 1..Len(history) :
                 history[i].energy_consumption_w = EnergyDraw(history[i].actions))
    /\ [][ (ControlStep /\ HasEmergency(state'.alerts))
              => /\ state'.actions = state.actions
                 /\ state'.energy_consumption_w = state.energy_consumption_w ]_vars

\* C28 witness: a simulate_step with an Emergency alert has followed a
\* normal step; the state and the record it appended hold the actions and
\* the energy of the normal step, not those of the safe-state command.
C28_Witness ==
    /\ call.op \in StepOps
    /\ call.ret = SafeStateCommand
    /\ Len(history) >= 2
    /\ ~HasEmergency(history[Len(history) - 1].alerts)
    /\ HasEmergency(history[Len(history)].alerts)
    /\ history[Len(history)].actions = history[Len(history) - 1].actions
    /\ history[Len(history)].actions.heater_power_percent > 0
    /\ history[Len(history)].energy_consumption_w =
           history[Len(history) - 1].energy_consumption_w
    /\ state.energy_consumption_w # EnergyDraw(SafeStateCommand)
    /\ state.actions = history[Len(history)].actions

---------------------------------------------------------------------------
(* Properties of the PID controller (specification SpecPid) *)

\* the error of the last update call
LastError == pid_call.last.setpoint - pid_call.last.measured

\* kp * error and ki * integral
PTerm(error) == RoundDiv(pid.kp * error, GainScale)

ITerm(integral) == RoundDiv(pid.ki * integral, GainScale)

\* the value limited to [lo, hi]
Clamp(x, lo, hi) == IF x < lo THEN lo ELSE IF x > hi THEN hi ELSE x

\* C7: with output_min <= output_max every value update returns lies in
\* [output_min, output_max], for dt positive, zero or negative and after any
\* updates and resets.
C7_OutputWithinBounds ==
    (pid_call.last.op = "update" /\ pid.output_min <= pid.output_max)
        => /\ pid_call.last.output >= pid.output_min
           /\ pid_call.last.output <= pid.output_max

\* C7 witness: an update with dt <= 0 on a controller with a non-zero
\* integral, whose P and I terms alone exceed output_max, has returned
\* output_max.
C7_Witness ==
    /\ pid_call.last.op = "update"
    /\ pid_call.last.dt <= 0
    /\ pid_call.before.integral # 0
    /\ PTerm(LastError) + ITerm(pid.integral) > pid.output_max
    /\ pid_call.last.output = pid.output_max

\* C8: the integral accumulator stays in [-100, 100].
C8_IntegralWithinBand ==
    pid.integral >= -100 * Scale /\ pid.integral <= 100 * Scale

\* C8 witness: an update whose error * dt would carry the accumulator over
\* the band has left it at the bound.
C8_Witness ==
    /\ pid_call.last.op = "update"
    /\ pid_call.last.dt > 0
    /\ pid_call.before.integral + LastError * pid_call.last.dt > 100 * Scale
    /\ pid.integral = 100 * Scale

\* C9: an update with dt <= 0 leaves integral and last_error unchanged and
\* returns clamp(kp * error + ki * integral) with no derivative term; of two
\* consecutive updates with dt = 0 each returns its own P term plus the
\* same I term.
C9_ZeroDtLeavesState ==
    (pid_call.last.op = "update" /\ pid_call.last.dt <= 0)
        => /\ pid.integral = pid_call.before.integral
           /\ pid.last_error = pid_call.before.last_error
           /\ pid_call.last.output =
                  Clamp(PTerm(LastError) + ITerm(pid_call.before.integral),
                        pid.output_min, pid.output_max)
           /\ (pid_call.prev.op = "update" /\ pid_call.prev.dt = 0
                    /\ pid_call.last.dt = 0)
                => pid_call.prev.output =
                       Clamp(PTerm(pid_call.prev.setpoint - pid_call.prev.measured)
                                 + ITerm(pid_call.before.integral),
                             pid.output_min, pid.output_max)

\* C9 witness: two consecutive updates with dt = 0 and different measured
\* values on a controller with ki # 0, a non-zero integral and a last_error
\* different from both errors.
C9_Witness ==
    /\ pid_call.last.op = "update"
    /\ pid_call.prev.op = "update"
    /\ pid_call.last.dt = 0
    /\ pid_call.prev.dt = 0
    /\ pid_call.last.measured # pid_call.prev.measured
    /\ pid.ki # 0
    /\ pid.integral # 0
    /\ pid.last_error # LastError
    /\ pid_call.last.output # pid_call.prev.output

\* C10: for dt > 0 update returns
\* clamp(kp*e + ki*I' + kd*(e - last_error)/dt) with e = setpoint - measured
\* and I' = clamp(integral + e*dt, -100, 100), and leaves integral = I' and
\* last_error = e; with ki = kd = 0, update(10, 0, 1) returns clamp(kp * 10).
C10_UpdateFormula ==
    (pid_call.last.op = "update" /\ pid_call.last.dt > 0)
        => LET e  == LastError
               dt == pid_call.last.dt
               I1 == Clamp(pid_call.before.integral + e * dt,
                           -100 * Scale, 100 * Scale)
           IN  /\ pid_call.last.output =
                      Clamp(PTerm(e) + ITerm(I1)
                              + RoundDiv(pid.kd * (e - pid_call.before.last_error),
                                         GainScale * dt),
                            pid.output_min, pid.output_max)
               /\ pid.integral = I1
               /\ pid.last_error = e
               /\ (pid.ki = 0 /\ pid.kd = 0 /\ pid_call.last.setpoint = 10 * Scale
                       /\ pid_call.last.measured = 0 /\ dt = 1)
                    => pid_call.last.output =
                           Clamp((pid.kp * 10 * Scale) \div GainScale,
                                 pid.output_min, pid.output_max)

\* C10 witness: an update with dt > 0 on a controller with kd # 0 and
\* ki # 0, a non-zero integral and a changed error has returned a value
\* strictly inside the output bounds.
C10_Witness ==
    /\ pid_call.last.op = "update"
    /\ pid_call.last.dt > 0
    /\ pid.kd # 0
    /\ pid.ki # 0
    /\ pid_call.before.integral # 0
    /\ pid_call.before.last_error # LastError
    /\ pid_call.last.output > pid.output_min
    /\ pid_call.last.output < pid.output_max

\* a controller constructed anew with the gains and bounds of p
FreshController(p) ==
    PIDController(p.kp, p.ki, p.kd, p.output_min, p.output_max)

\* (setpoint, measured, dt) sequences replayed on a controller
ReplaySequences ==
    { << <<22 * Scale, 15 * Scale, 60>>, <<22 * Scale, 30 * Scale, 1>>,
         <<10 * Scale, 0, 0>> >>,
      << <<10 * Scale, 0, 1>>, <<10 * Scale, 15 * Scale, -1>>,
         <<22 * Scale, 0, 60>> >>,
      << <<22 * Scale, 30 * Scale, 0>>, <<22 * Scale, 15 * Scale, 1>>,
         <<10 * Scale, 30 * Scale, 60>> >> }

\* the outputs update returns when the inputs of seq are fed to p in order
RECURSIVE ReplayOutputs(_, _)
ReplayOutputs(p, seq) ==
    IF seq = << >> THEN << >>
    ELSE << PIDController_update(p, seq[1][1], seq[1][2], seq[1][3]).output >>
         \o ReplayOutputs(
                PIDController_update(p, seq[1][1], seq[1][2], seq[1][3]).pid,
                Tail(seq))

\* C11: reset zeroes integral and last_error and leaves gains and bounds
\* alone, so the controller is as a freshly constructed one; input sequences
\* replayed after the reset give the outputs a fresh controller gives, and an
\* update made right after a reset returns what a fresh controller returns
\* and leaves the state a fresh controller would be left in.
C11_ResetReplaysAsFresh ==
    /\ [][ (pid_call'.n = pid_call.n + 1 /\ pid_call'.last.op = "reset")
             => /\ pid'.integral = 0
                /\ pid'.last_error = 0
                /\ pid'.kp = pid.kp /\ pid'.ki = pid.ki /\ pid'.kd = pid.kd
                /\ pid'.output_min = pid.output_min
                /\ pid'.output_max = pid.output_max
                /\ \A seq \in ReplaySequences :
                       ReplayOutputs(pid', seq)
                           = ReplayOutputs(FreshController(pid), seq) ]_vars
    /\ []( (pid_call.last.op = "update" /\ pid_call.prev.op = "reset")
             => /\ pid_call.last.output =
                       PIDController_update(FreshController(pid),
                           pid_call.last.setpoint, pid_call.last.measured,
                           pid_call.last.dt).output
                /\ pid = PIDController_update(FreshController(pid),
                             pid_call.last.setpoint, pid_call.last.measured,
                             pid_call.last.dt).pid )

\* C11 witness: a reset has acted on a controller with a derivative gain
\* whose integral and last_error were both non-zero.
C11_Witness ==
    /\ pid_call.last.op = "reset"
    /\ pid_call.prev.op = "update"
    /\ pid_call.before.integral # 0
    /\ pid_call.before.last_error # 0
    /\ pid.kd # 0
    /\ pid.integral = 0
    /\ pid.last_error = 0

---------------------------------------------------------------------------
(* Properties of the alert evaluator (specification SpecAlerts) *)

\* the alerts about one variable are told by their wording
TemperatureMessages ==
    {"temperature critically out of range", "temperature outside tolerance"}

HumidityMessages == {"humidity outside tolerance"}

Co2Messages == {"co2 dangerously high", "co2 too low for plant growth"}

O2Messages == {"oxygen critically low", "oxygen fire hazard"}

\* the levels of the alerts of the last check_alerts call whose message is
\* in messages, and how many such alerts there are
LevelsAbout(messages) ==
    { call.ret.alerts[i].level :
        i \in { j \in 1..Len(call.ret.alerts) :
                    call.ret.alerts[j].message \in messages } }

CountAbout(messages) ==
    Cardinality({ j \in 1..Len(call.ret.alerts) :
                      call.ret.alerts[j].message \in messages })

\* the rule table, per variable
TemperatureRule(s, sp) ==
    LET err == IF s.temperature_c >= sp.temperature_c
               THEN s.temperature_c - sp.temperature_c
               ELSE sp.temperature_c - s.temperature_c
    IN  IF err > 3 * sp.temperature_tolerance THEN {"CRITICAL"}
        ELSE IF err > 2 * sp.temperature_tolerance THEN {"WARNING"}
        ELSE {}

HumidityRule(s, sp) ==
    LET err == IF s.humidity_percent >= sp.humidity_percent
               THEN s.humidity_percent - sp.humidity_percent
               ELSE sp.humidity_percent - s.humidity_percent
    IN  IF err > 2 * sp.humidity_tolerance THEN {"WARNING"} ELSE {}

Co2Rule(s) ==
    IF s.co2_ppm > 5000 * Scale THEN {"CRITICAL"}
    ELSE IF s.co2_ppm < 200 * Scale THEN {"WARNING"}
    ELSE {}

O2Rule(s) ==
    IF s.o2_percent < 18 * O2Scale THEN {"EMERGENCY"}
    ELSE IF s.o2_percent > 23 * O2Scale THEN {"CRITICAL"}
    ELSE {}

\* C12: check_alerts returns exactly the alerts of the rule table for its
\* arguments, whatever the controller's own state is: at most one alert per
\* variable, strict inequalities (a reading on a threshold raises no alert
\* of that tier), nothing but alerts about the four variables; with
\* setpoint 22 and tolerance 2 the readings 22 and 25 raise no temperature
\* alert, 27 a Warning, 29 a Critical.  The call changes nothing.
C12_AlertsFollowRuleTable ==
    /\ []( call.op = "check_alerts" =>
             LET s  == call.ret.sensors
                 sp == call.ret.setpoints
             IN  /\ LevelsAbout(TemperatureMessages) = TemperatureRule(s, sp)
                 /\ LevelsAbout(HumidityMessages) = HumidityRule(s, sp)
                 /\ LevelsAbout(Co2Messages) = Co2Rule(s)
                 /\ LevelsAbout(O2Messages) = O2Rule(s)
                 /\ CountAbout(TemperatureMessages) <= 1
                 /\ CountAbout(HumidityMessages) <= 1
                 /\ CountAbout(Co2Messages) <= 1
                 /\ CountAbout(O2Messages) <= 1
                 /\ Len(call.ret.alerts) =
                        CountAbout(TemperatureMessages)
                        + CountAbout(HumidityMessages)
                        + CountAbout(Co2Messages) + CountAbout(O2Messages)
                 /\ (sp.temperature_c = 22 * Scale
                        /\ sp.temperature_tolerance = 2 * Scale)
                      => /\ s.temperature_c \in {22 * Scale, 25 * Scale, 26 * Scale}
                            => LevelsAbout(TemperatureMessages) = {}
                         /\ s.temperature_c \in {27 * Scale, 28 * Scale}
                            => LevelsAbout(TemperatureMessages) = {"WARNING"}
                         /\ s.temperature_c = 29 * Scale
                            => LevelsAbout(TemperatureMessages) = {"CRITICAL"}
                 /\ s.co2_ppm \in {200 * Scale, 5000 * Scale}
                      => LevelsAbout(Co2Messages) = {}
                 /\ s.o2_percent \in {18 * O2Scale, 23 * O2Scale}
                      => LevelsAbout(O2Messages) = {} )
    /\ [][ call'.op = "check_alerts" =>
               UNCHANGED <<state, temp_controller, humidity_controller,
                           co2_controller, history>> ]_vars

\* C12 witness: on a configured controller, a call with the temperature
\* exactly 3 x tolerance off (Warning, not Critical), the humidity beyond
\* 2 x tolerance, the CO2 just under 200 ppm and the O2 just over 23% has
\* returned four alerts.
C12_Witness ==
    /\ call.op = "check_alerts"
    /\ state.mode = "GROWING"
    /\ call.ret.sensors.temperature_c - call.ret.setpoints.temperature_c
           = 3 * call.ret.setpoints.temperature_tolerance
    /\ call.ret.sensors.co2_ppm = 200 * Scale - 1
    /\ call.ret.sensors.o2_percent = 23 * O2Scale + 1
    /\ Len(call.ret.alerts) = 4
    /\ LevelsAbout(TemperatureMessages) = {"WARNING"}

\* every reading within its own setpoint plus or minus its own tolerance
WithinOwnTolerance(s, sp) ==
    /\ s.temperature_c >= sp.temperature_c - sp.temperature_tolerance
    /\ s.temperature_c <= sp.temperature_c + sp.temperature_tolerance
    /\ s.humidity_percent >= sp.humidity_percent - sp.humidity_tolerance
    /\ s.humidity_percent <= sp.humidity_percent + sp.humidity_tolerance
    /\ s.co2_ppm >= sp.co2_ppm - sp.co2_tolerance
    /\ s.co2_ppm <= sp.co2_ppm + sp.co2_tolerance
    /\ s.o2_percent >= sp.o2_percent - sp.o2_tolerance
    /\ s.o2_percent <= sp.o2_percent + sp.o2_tolerance

\* C13 (as claimed): for every configuration of setpoints and tolerances,
\* readings that each lie within their own setpoint plus or minus their own
\* tolerance raise no alert.
C13_NoAlertWithinOwnTolerance ==
    (call.op = "check_alerts"
        /\ WithinOwnTolerance(call.ret.sensors, call.ret.setpoints))
        => call.ret.alerts = << >>

\* C13 (amended): temperature and humidity readings within their setpoint
\* plus or minus their tolerance, a CO2 reading within 200..5000 ppm and an
\* O2 reading within 18..23%, whatever the CO2 and O2 setpoints and
\* tolerances are, raise no alert.
C13_NoAlertWithinBandsAndThresholds ==
    (call.op = "check_alerts"
        /\ call.ret.sensors.temperature_c >=
               call.ret.setpoints.temperature_c
                   - call.ret.setpoints.temperature_tolerance
        /\ call.ret.sensors.temperature_c <=
               call.ret.setpoints.temperature_c
                   + call.ret.setpoints.temperature_tolerance
        /\ call.ret.sensors.humidity_percent >=
               call.ret.setpoints.humidity_percent
                   - call.ret.setpoints.humidity_tolerance
        /\ call.ret.sensors.humidity_percent <=
               call.ret.setpoints.humidity_percent
                   + call.ret.setpoints.humidity_tolerance
        /\ call.ret.sensors.co2_ppm >= 200 * Scale
        /\ call.ret.sensors.co2_ppm <= 5000 * Scale
        /\ call.ret.sensors.o2_percent >= 18 * O2Scale
        /\ call.ret.sensors.o2_percent <= 23 * O2Scale)
        => call.ret.alerts = << >>

\* C13 witness: with the narrower bands (25 +- 1, 60 +- 5) a call with the
\* temperature and the humidity on the edge of their bands, the CO2 on
\* 5000 ppm, outside its own band, and the O2 on 18% has returned no alert.
C13_Witness ==
    /\ call.op = "check_alerts"
    /\ call.ret.setpoints.temperature_tolerance = 1 * Scale
    /\ call.ret.sensors.temperature_c = 26 * Scale
    /\ call.ret.sensors.humidity_percent = 55 * Scale
    /\ call.ret.sensors.co2_ppm = 5000 * Scale
    /\ call.ret.sensors.o2_percent = 18 * O2Scale
    /\ call.ret.alerts = << >>

---------------------------------------------------------------------------
(* Properties of the lighting scheduler (specification SpecLighting) *)

\* h = hour mod 24 of the last lighting call, in seconds
HourInCycle == call.ret.hour_secs % 86400

\* C14: for a photoperiod P with 2 <= P <= 24 and h = hour mod 24 the LED
\* power is 100*h for h < 1, 100 for 1 <= h <= P-1, 100*(P-h) for
\* P-1 < h < P and 0 for h >= P; with P = 16 it is 50 at h = 0.5, 100 at
\* h = 8, 50 at h = 15.5 and 0 at h = 20.  (36 * led = Scale * seconds
\* states led = 100 * seconds / 3600 without a division.)
C14_LightingSchedule ==
    (call.op = "calculate_lighting_control"
        /\ call.ret.photoperiod >= 2 * Scale
        /\ call.ret.photoperiod <= 24 * Scale)
        => LET P   == call.ret.photoperiod
               h   == HourInCycle
               led == call.ret.led_power
           IN  /\ h < 3600 => 36 * led = Scale * h
               /\ (h >= 3600 /\ h * Scale <= (P - Scale) * 3600)
                    => led = 100 * Scale
               /\ (h * Scale > (P - Scale) * 3600 /\ h * Scale < P * 3600)
                    => 36 * led = P * 3600 - Scale * h
               /\ h * Scale >= P * 3600 => led = 0
               /\ P = 16 * Scale =>
                    /\ h = 1800 => led = 50 * Scale
                    /\ h = 8 * 3600 => led = 100 * Scale
                    /\ h = 55800 => led = 50 * Scale
                    /\ h = 20 * 3600 => led = 0

\* C14 witness: an hour beyond 24 that wraps to 15.5 has given 50% on the
\* sunset ramp of a 16 h photoperiod.
C14_Witness ==
    /\ call.op = "calculate_lighting_control"
    /\ call.ret.photoperiod = 16 * Scale
    /\ call.ret.hour_secs = 86400 + 55800
    /\ call.ret.led_power = 50 * Scale

---------------------------------------------------------------------------
(* Properties of the 24 hour example run (specification SpecExample) *)

\* the distance of the temperature reading from 22 degrees
DistanceFrom22 ==
    IF state.sensors.temperature_c >= 22 * Scale
    THEN state.sensors.temperature_c - 22 * Scale
    ELSE 22 * Scale - state.sensors.temperature_c

\* C17: from T = 15, H = 40, CO2 = 400 with setpoints 22, 65, 800 in
\* Growing mode, run_simulation(24, 60) makes 1440 steps, the history holds
\* exactly 1440 records, and the final temperature is strictly closer to 22
\* than 15 was; the temperature is closer to 22 than 15 was already after
\* each step of the run, and the history holds one record per step made.
C17_ExampleRunConverges ==
    /\ (call.op = "run_step" /\ run.duration_hours = 24 * HourScale
            /\ run.dt = 60)
         => /\ DistanceFrom22 < 22 * Scale - 15 * Scale
            /\ Len(history) = run.steps - run.remaining
    /\ (RunReturned /\ run.duration_hours = 24 * HourScale /\ run.dt = 60)
         => /\ run.steps = 1440
            /\ steps_done = 1440
            /\ Len(history) = 1440
            /\ state.mode = "GROWING"
            /\ state.setpoints.temperature_c = 22 * Scale
            /\ state.setpoints.humidity_percent = 65 * Scale
            /\ state.setpoints.co2_ppm = 800 * Scale
            /\ DistanceFrom22 < 22 * Scale - 15 * Scale

\* C17 witness: the 24 hour run has returned at timestamp 86400 with 1440
\* records, the first of them still colder than 17 degrees.
C17_Witness ==
    /\ RunReturned
    /\ run.steps = 1440
    /\ Len(history) = 1440
    /\ state.sensors.timestamp = 86400
    /\ history[1].sensors.temperature_c < 17 * Scale
    /\ history[1].sensors.temperature_c > 15 * Scale

---------------------------------------------------------------------------
(* Properties of a PID controller with inverted bounds (specification       *)
(* SpecPidInverted)                                                         *)

\* C19 (as claimed): no controller with output_min > output_max exists and
\* is updated, the construction having failed.
C19_NoInvertedBounds ==
    ~(pid_call.last.op = "update" /\ pid.output_min > pid.output_max)

---------------------------------------------------------------------------
(* Properties of the humidity control (specification SpecHumidity) *)

\* C20: on a humidity controller in its initial state, for a current
\* humidity above the setpoint and dt > 0, calculate_humidity_control
\* returns a misting rate of exactly 0 and a vent position above 0.
C20_VentsOpenWhenTooHumid ==
    (call.op = "calculate_humidity_control"
        /\ call.ret.before = AIEnvironmentalController.humidity_controller
        /\ call.ret.current > call.ret.setpoint
        /\ call.dt > 0)
        => /\ call.ret.misting = 0
           /\ call.ret.venting > 0

\* C20 witness: the first call, with the humidity one thousandth above the
\* setpoint, has returned no misting and a vent position above 0 and under
\* the 50% cap.
C20_Witness ==
    /\ call.op = "calculate_humidity_control"
    /\ call.ret.before = AIEnvironmentalController.humidity_controller
    /\ call.ret.current = call.ret.setpoint + 1
    /\ call.dt > 0
    /\ call.ret.misting = 0
    /\ call.ret.venting > 0
    /\ call.ret.venting < 50 * Scale

---------------------------------------------------------------------------
(* Properties of the commands update_control returns (specification         *)
(* SpecCommand)                                                             *)

\* C21: every command update_control returns, normal or safe-state and for
\* any dt, has heater power, vent position and LED power in [0, 100], a
\* misting rate and a CO2 injection rate of 0 or more and a fan speed in
\* [500, 2000] RPM.
C21_CommandFieldsInRange ==
    call.op \in ControlOps =>
        /\ call.ret.heater_power_percent >= 0
        /\ call.ret.heater_power_percent <= 100 * Scale
        /\ call.ret.vent_position_percent >= 0
        /\ call.ret.vent_position_percent <= 100 * Scale
        /\ call.ret.led_power_percent >= 0
        /\ call.ret.led_power_percent <= 100 * Scale
        /\ call.ret.misting_rate_ml_min >= 0
        /\ call.ret.co2_injection_rate_ml_min >= 0
        /\ call.ret.circulation_fan_rpm >= 500 * Scale
        /\ call.ret.circulation_fan_rpm <= 2000 * Scale
        /\ call.ret.cooler_active \in BOOLEAN

\* C21 witness: a normal step made in deep cold on the sunset ramp has
\* returned the heater at its cap of 100, the fan at its cap of 2000 RPM
\* and an LED power strictly between 0 and 100.
C21_Witness ==
    /\ call.op \in ControlOps
    /\ ~HasEmergency(state.alerts)
    /\ call.ret.heater_power_percent = 100 * Scale
    /\ call.ret.circulation_fan_rpm = 2000 * Scale
    /\ call.ret.led_power_percent > 0
    /\ call.ret.led_power_percent < 100 * Scale
    /\ call.ret.misting_rate_ml_min > 0
    /\ call.ret.co2_injection_rate_ml_min > 0

\* C25: in every command update_control returns, normal or safe-state, a
\* heater power above 0 comes with the cooler off and a misting rate above
\* 0 comes with the vents shut; in a normal step the vent position is at
\* most 50%.
C25_NoOpposingActuators ==
    call.op \in ControlOps =>
        /\ call.ret.heater_power_percent > 0 => ~call.ret.cooler_active
        /\ call.ret.misting_rate_ml_min > 0 => call.ret.vent_position_percent = 0
        /\ ~HasEmergency(state.alerts) =>
               call.ret.vent_position_percent <= 50 * Scale

\* C25 witness: a normal step made in an overheated, humid dome has
\* returned the cooler on with the heater at 0 and the vents at their cap
\* of 50% with no misting.
C25_Witness ==
    /\ call.op \in ControlOps
    /\ ~HasEmergency(state.alerts)
    /\ call.ret.cooler_active
    /\ call.ret.heater_power_percent = 0
    /\ call.ret.vent_position_percent = 50 * Scale
    /\ call.ret.misting_rate_ml_min = 0

---------------------------------------------------------------------------
(* Properties of runs under a sustained Emergency (specification SpecPurge) *)

\* the CO2 lost in one safe-state step of dt seconds: 55 * dt / 60 ppm
PurgeLoss(dt) == (55 * Scale * dt) \div 60

\* a step of the run in progress executed with an Emergency alert
PurgeStep == SimStep /\ HasEmergency(state'.alerts) /\ call'.dt > 0

\* a run under Emergency is in progress with enough steps left to take the
\* CO2 reading to 0
PurgeSustained ==
    /\ run.remaining > 0
    /\ run.dt > 0
    /\ state.sensors.o2_percent < 18 * O2Scale
    /\ run.remaining * PurgeLoss(run.dt) >= state.sensors.co2_ppm

\* C29 (as claimed): in every Emergency step with dt > 0 that starts with a
\* positive CO2 reading, the reading decreases by 55 * dt / 60 ppm; a
\* sustained Emergency run takes it to 0, where it stays.
C29_PurgeLosesFixedAmount ==
    /\ [][ (PurgeStep /\ state.sensors.co2_ppm > 0)
              => state'.sensors.co2_ppm =
                     state.sensors.co2_ppm - PurgeLoss(call'.dt) ]_vars
    /\ [][ (PurgeStep /\ state.sensors.co2_ppm = 0)
              => state'.sensors.co2_ppm = 0 ]_vars
    /\ (PurgeSustained ~> state.sensors.co2_ppm = 0)

\* C29 (amended): in every Emergency step with dt > 0 that starts with a
\* positive CO2 reading, the reading strictly decreases, by 55 * dt / 60 ppm
\* when it is at least that much and to exactly 0 otherwise; a sustained
\* Emergency run takes it to 0 after finitely many steps, and every later
\* step leaves it 0.
C29_PurgeEmptiesDome ==
    /\ [][ (PurgeStep /\ state.sensors.co2_ppm > 0)
              => /\ state'.sensors.co2_ppm < state.sensors.co2_ppm
                 /\ state'.sensors.co2_ppm =
                        Max(0, state.sensors.co2_ppm - PurgeLoss(call'.dt)) ]_vars
    /\ [][ (PurgeStep /\ state.sensors.co2_ppm = 0)
              => state'.sensors.co2_ppm = 0 ]_vars
    /\ (PurgeSustained ~> state.sensors.co2_ppm = 0)

\* C29 witness: a run under Emergency has returned; one of its records
\* holds a positive CO2 reading smaller than the loss of one step, the next
\* record holds 0 and so do the records of the later steps.
C29_Witness ==
    /\ call.op = "run_step"
    /\ run.remaining = 0
    /\ \A i \in RunRecords : HasEmergency(history[i].alerts)
    /\ \E i \in RunRecords :
           /\ i + 2 <= Len(history)
           /\ history[i].sensors.co2_ppm > 0
           /\ history[i].sensors.co2_ppm < PurgeLoss(run.dt)
           /\ \A j \in (i + 1)..Len(history) : history[j].sensors.co2_ppm = 0

---------------------------------------------------------------------------
(* Properties of two controller objects (specification SpecInstances) *)

\* controller k as the calls on it see it
Instance(k) == Deref(instances.store, instances.ctl[k])

\* the controller left by simulate_step calls with the time steps dts on
\* the controller self
RECURSIVE Replay(_, _)
Replay(self, dts) ==
    IF dts = << >> THEN self
    ELSE Replay(simulate_step(self, Head(dts)).self, Tail(dts))

\* controller k had it been constructed, configured and stepped with no
\* other controller in the program
Alone(k) ==
    IF instances.log[k].configured
    THEN Replay(configured(AIEnvironmentalController, instances.log[k].mode,
                           instances.log[k].sc),
                instances.log[k].dts)
    ELSE AIEnvironmentalController

\* C23: two controller instances share no mutable state: under every
\* interleaving of their simulate_step calls each instance has the
\* DomeState, the PID controller states and the history that its own steps
\* alone give it, and a call on one instance changes nothing of the other.
C23_InstancesIsolated ==
    /\ [](\A k \in 1..2 : Instance(k) = Alone(k))
    /\ [][ \A k \in 1..2 :
              instances'.log[k] = instances.log[k]
                  => Deref(instances'.store, instances'.ctl[k]) = Instance(k)
         ]_vars

\* C23 witness: the two instances, configured differently, have made two
\* steps each, in turns, and hold different states, PID
\* controller states and histories.
C23_Witness ==
    /\ instances.switches = 3
    /\ instances.log[1].sc # instances.log[2].sc
    /\ Instance(1).state # Instance(2).state
    /\ Instance(1).temp_controller # Instance(2).temp_controller
    /\ Len(Instance(1).history) = 2
    /\ Len(Instance(2).history) = 2
    /\ Instance(1).history # Instance(2).history

\* the two controllers were configured with the same readings and
\* setpoints and have received the same sequence of simulate_step calls
SameCalls ==
    /\ instances.log[1].configured
    /\ instances.log[2].configured
    /\ instances.log[1].sc = instances.log[2].sc
    /\ instances.log[1].dts = instances.log[2].dts

\* the sensors, the actions, the alerts and the energy of the records
SensorTrajectory(k) ==
    [i \in 1..Len(Instance(k).history) |->
        [sensors |-> Instance(k).history[i].sensors,
         actions |-> Instance(k).history[i].actions,
         alerts |-> Instance(k).history[i].alerts,
         energy_consumption_w |-> Instance(k).history[i].energy_consumption_w]]

\* C30: the configured mode has no influence on control: two controllers
\* configured with the same readings and setpoints and any two modes have,
\* after the same sequence of simulate_step calls, returned the same
\* commands and hold the same sensors, the same sensor trajectories, the
\* same stored actions, alerts and energy and the same PID controller
\* states.
C30_ModeHasNoInfluence ==
    SameCalls =>
        /\ instances.log[1].rets = instances.log[2].rets
        /\ Instance(1).state.sensors = Instance(2).state.sensors
        /\ Instance(1).state.actions = Instance(2).state.actions
        /\ Instance(1).state.alerts = Instance(2).state.alerts
        /\ Instance(1).state.energy_consumption_w =
               Instance(2).state.energy_consumption_w
        /\ Instance(1).temp_controller = Instance(2).temp_controller
        /\ Instance(1).humidity_controller = Instance(2).humidity_controller
        /\ Instance(1).co2_controller = Instance(2).co2_controller
        /\ SensorTrajectory(1) = SensorTrajectory(2)

\* C30 witness: two controllers configured alike but for the modes
\* Emergency and Growing have made the same two steps with different dt,
\* without an Emergency alert; both returned the same commands, with the
\* heater on, and their modes still differ.
C30_Witness ==
    /\ SameCalls
    /\ instances.log[1].mode = "EMERGENCY"
    /\ instances.log[2].mode = "GROWING"
    /\ instances.log[1].dts = <<60, 30>>
    /\ instances.log[1].rets = instances.log[2].rets
    /\ instances.log[1].rets[2].heater_power_percent > 0
    /\ ~HasEmergency(Instance(1).state.alerts)
    /\ Instance(1).state.mode = "EMERGENCY"
    /\ Instance(2).state.mode = "GROWING"

=============================================================================
